---- MODULE Spec2Model ----
(***************************************************************************)
(* Onboarding bot: the poll-and-notify cycle of BotService (change         *)
(* detection per roster category, per-city push cadence, forced checks)    *)
(* and the two-phase email allocation of EmailService.                     *)
(*                                                                         *)
(* City names are transliterated: "Beijing" is the rule key for Beijing    *)
(* (scheduled, Monday and Wednesday), "Wuhan" the key for Wuhan            *)
(* (realtime); every other label has no entry in CITY_PUSH_RULES.          *)
(***************************************************************************)
EXTENDS Integers, Sequences, FiniteSets, TLC

VARIABLES
    now,                    \* the wall clock: hours since Sunday 00:00 UTC, modulo one week
    didiConfigured,         \* didiService.configured
    lastKnownIds,           \* BotService.lastKnownIds
    initialized,            \* BotService.initialized
    lastKnownCompletedIds,  \* BotService.lastKnownCompletedIds
    completedInitialized,   \* BotService.completedInitialized
    lastCheck,              \* what the last checkAndNotify cycle fetched, classified and sent,
                            \* and (seq) the parity of the number of cycles run so far
    pushQuery,              \* the last evaluation of _shouldPushForCity on its own
    prov,                   \* the frame of the provisionEmailWithRetry call in progress
    batch,                  \* the frame of the batchGenerateEmailsLocal call in progress
    sentMessages,           \* BotService.sentMessages: the tracked messages, oldest first
    auditLog,               \* BotService.auditLog
    run,                    \* the frame of the batch-provision run in progress
    lastCallback,           \* what the last card callback or daily summary did and returned
    urgency,                \* the frame of the last grouping of a roster by urgency
    gate,                   \* DidiService._throttle: the clock in ms, _lastRequestTime, the callers of request
    fetch,                  \* the frame of the getEnrichedPreHires call in progress
    req,                    \* the frame of the FeishuService.request call in progress, and tokenCache
    timers,                 \* BotService.timer and dailyTimer, and the timers of the event loop
    member,                 \* the frame of the last didiService.provisionMember call of a callback
    handling,               \* two handlings of one provision_email action, and the record
    matcher,                \* the rule list fetched and the last matchRule call
    cycles,                 \* the checkAndNotify cycles suspended at their fetch, and the roster of the HR system
    auditReply              \* the last answer of GET /bot/audit

vars == <<now, didiConfigured, lastKnownIds, initialized, lastKnownCompletedIds,
          completedInitialized, lastCheck, pushQuery, prov, batch,
          sentMessages, auditLog, run, lastCallback, urgency, gate, fetch, req, timers, member, handling, matcher, cycles, auditReply>>

botVars == <<lastKnownIds, initialized, lastKnownCompletedIds, completedInitialized, lastCheck>>

\* The state of the card callbacks.
callbackVars == <<sentMessages, auditLog, run, lastCallback>>

\* The clock, the configuration and the notification state, which the email
\* service does not touch.
pollVars == <<now, didiConfigured, botVars, pushQuery>>

\* The state of the clients of the two services, which the bot does not touch.
clientVars == <<gate, fetch, req, timers, member, handling, matcher, cycles, auditReply>>

\* The state of the bot.
botAll == <<now, didiConfigured, lastKnownIds, initialized, lastKnownCompletedIds,
            completedInitialized, lastCheck, pushQuery, prov, batch,
            sentMessages, auditLog, run, lastCallback, urgency>>

\* The frames of the email service, which a poll cycle does not touch.
emailVars == <<prov, batch>>

(***************************************************************************)
(* The roster.  A record is identified by its id; its city and its         *)
(* employee type are those the HR source reports for it.                   *)
(***************************************************************************)
NumHires == 2

Hires == 1..NumHires

HireCity == <<"Beijing", "Wuhan", "Shanghai">>

CityOf(h) == HireCity[((h - 1) % Len(HireCity)) + 1]

IsIntern(h) == h % 2 = 0

CityLabels == {"Beijing", "Wuhan", "Shanghai", "Unknown"}

NoCity == "none"

(***************************************************************************)
(* Push cadence.                                                           *)
(***************************************************************************)
HoursPerWeek == 7 * 24

CITY_PUSH_RULES ==
    [c \in {"Beijing", "Wuhan"} |->
        IF c = "Beijing" THEN [type |-> "scheduled", days |-> {1, 3}]
                         ELSE [type |-> "realtime", days |-> {}]]

DEFAULT_PUSH_RULE == [type |-> "scheduled", days |-> {1, 3}]

PushRuleOf(city) ==
    IF city \in DOMAIN CITY_PUSH_RULES THEN CITY_PUSH_RULES[city] ELSE DEFAULT_PUSH_RULE

\* The weekday (0 = Sunday) of instant t on the Asia/Shanghai calendar, UTC+8.
ChinaDay(t) == ((t + 8) \div 24) % 7

\* A mutant of ShouldPushForCity: a scheduled rule also asks for new records.
ShouldPushScheduledNeedsNew(city, hasNewHires) ==
    LET rule == PushRuleOf(city)
    IN  IF rule.type = "realtime" THEN hasNewHires
        ELSE IF rule.type = "scheduled" THEN hasNewHires /\ ChinaDay(now) \in rule.days
        ELSE hasNewHires

ShouldPushForCity(city, hasNewHires) ==
    LET rule == PushRuleOf(city)
    IN  IF rule.type = "realtime" THEN hasNewHires
        ELSE IF rule.type = "scheduled" THEN ChinaDay(now) \in rule.days
        ELSE hasNewHires

(***************************************************************************)
(* Grouping by city: byCity keeps the cities in the order in which the     *)
(* roster array first mentions them; the roster array is in id order.      *)
(***************************************************************************)
\* The records of S that open a new city group, in roster order.
GroupOpeners(S) ==
    SelectSeq([h \in 1..NumHires |-> h],
              LAMBDA h : h \in S /\ \A j \in 1..(h - 1) : j \in S => CityOf(j) # CityOf(h))

ByCity(S) ==
    LET firsts == GroupOpeners(S)
    IN  [k \in DOMAIN firsts |->
            [city |-> CityOf(firsts[k]), hires |-> {h \in S : CityOf(h) = CityOf(firsts[k])}]]

\* A mutant of SkipCity: the force flag no longer bypasses the cadence policy.
SkipCityIgnoringForce(city, hasNew, force) == ~ShouldPushForCity(city, hasNew)

\* The guard of the per-city loop: the group is skipped.
SkipCity(city, hasNew, force) == ~ShouldPushForCity(city, hasNew) /\ ~force

\* The per-city loop: the cards sent so far, in order, until a send throws.  A
\* send to downCity throws; known is the KnownSet the loop reads, which the
\* caller has already replaced by the current roster.
RECURSIVE PushLoop(_, _, _, _, _, _)
PushLoop(groups, k, known, force, downCity, cards) ==
    IF k > Len(groups) THEN [cards |-> cards, threw |-> FALSE]
    ELSE IF SkipCity(groups[k].city, (\E h \in groups[k].hires : h \notin known) \/ force, force)
        THEN PushLoop(groups, k + 1, known, force, downCity, cards)
    ELSE IF groups[k].city = downCity
        THEN [cards |-> cards, threw |-> TRUE]
    ELSE PushLoop(groups, k + 1, known, force, downCity, Append(cards, groups[k]))

\* A mutant of NewSince: nothing is filtered, every record counts as new.
NewSinceNoFilter(current, known, wasInitialized, force) == current

\* The classification of one poll: the records counted as new.
NewSince(current, known, wasInitialized, force) ==
    IF force THEN current
    ELSE IF wasInitialized THEN {h \in current : h \notin known}
    ELSE current

NoCategory(known, wasInitialized) ==
    [known |-> known, initialized |-> wasInitialized, new |-> {},
     cards |-> <<>>, threw |-> FALSE]

ProcessPreboardingHires(preHires, force, downCity) ==
    LET newHires == NewSince(preHires, lastKnownIds, initialized, force)
        known == preHires
    IN  IF newHires = {} /\ ~force
           THEN [known |-> known, initialized |-> TRUE, new |-> newHires,
                 cards |-> <<>>, threw |-> FALSE]
        ELSE LET withEmails == IF force THEN preHires ELSE newHires
                 sent == PushLoop(ByCity(withEmails), 1, known, force, downCity, <<>>)
             IN  [known |-> known, initialized |-> TRUE, new |-> newHires,
                  cards |-> sent.cards, threw |-> sent.threw]

\* A mutant of ProcessCompletedHires: interns are not filtered out.
ProcessCompletedHiresWithInterns(completedHires, force, downCity) ==
    LET newCompleted ==
            NewSince(completedHires, lastKnownCompletedIds, completedInitialized, force)
        sent == PushLoop(ByCity(newCompleted), 1, completedHires, force, downCity, <<>>)
    IN  IF newCompleted = {} /\ ~force
           THEN [known |-> completedHires, initialized |-> TRUE, new |-> newCompleted,
                 cards |-> <<>>, threw |-> FALSE]
        ELSE [known |-> completedHires, initialized |-> TRUE, new |-> newCompleted,
              cards |-> sent.cards, threw |-> sent.threw]

ProcessCompletedHires(completedHires, force, downCity) ==
    LET nonInterns == {h \in completedHires : ~IsIntern(h)}
    IN  IF nonInterns = {} THEN NoCategory(lastKnownCompletedIds, completedInitialized)
        ELSE LET newCompleted ==
                     NewSince(nonInterns, lastKnownCompletedIds, completedInitialized, force)
                 known == nonInterns
             IN  IF newCompleted = {} /\ ~force
                    THEN [known |-> known, initialized |-> TRUE, new |-> newCompleted,
                          cards |-> <<>>, threw |-> FALSE]
                 ELSE LET sent == PushLoop(ByCity(newCompleted), 1, known, force, downCity, <<>>)
                      IN  [known |-> known, initialized |-> TRUE, new |-> newCompleted,
                           cards |-> sent.cards, threw |-> sent.threw]

NoCheck ==
    [kind |-> "none", force |-> FALSE, preHires |-> {}, completedHires |-> {},
     newHires |-> {}, newCompleted |-> {}, emailCards |-> <<>>, didiCards |-> <<>>,
     threw |-> FALSE, seq |-> 0]

SENT_MESSAGES_CAP == 50

\* A mutant of TrackMessage: above the capacity the newest entry is deleted.
TrackMessageEvictsNewest(tracked, hires) ==
    LET added == Append(tracked, hires)
    IN  IF Len(added) > SENT_MESSAGES_CAP THEN SubSeq(added, 1, SENT_MESSAGES_CAP) ELSE added

\* _trackMessage for a message that has an id: message ids are fresh, the
\* entry is added last, and the oldest entry is deleted above the capacity.
TrackMessage(tracked, hires) ==
    LET added == Append(tracked, hires)
    IN  IF Len(added) > SENT_MESSAGES_CAP THEN Tail(added) ELSE added

\* _trackMessage for the cards of a cycle, in the order they were sent.
RECURSIVE TrackCards(_, _)
TrackCards(tracked, cards) ==
    IF cards = <<>> THEN tracked
    ELSE TrackCards(TrackMessage(tracked, Head(cards).hires), Tail(cards))

\* One poll-and-notify cycle.  fetchedCompleted is what the completed roster
\* would return; it is fetched only when the ride service is configured.
\* withId: _sendCard returns the message ids of the cards; it returns null
\* otherwise (the cards go to a webhook, or the response has no message id).
CheckAndNotify(force, preHires, fetchedCompleted, downCity, withId) ==
    \E email \in {IF preHires # {}
                      THEN ProcessPreboardingHires(preHires, force, downCity)
                      ELSE NoCategory(lastKnownIds, initialized)} :
    \E didi \in {IF ~email.threw /\ fetchedCompleted # {} /\ didiConfigured
                     THEN ProcessCompletedHires(fetchedCompleted, force, downCity)
                     ELSE NoCategory(lastKnownCompletedIds, completedInitialized)} :
        /\ lastKnownIds' = email.known
        /\ initialized' = email.initialized
        /\ lastKnownCompletedIds' = didi.known
        /\ completedInitialized' = didi.initialized
        /\ lastCheck' = [kind |-> "check", force |-> force, preHires |-> preHires,
                         completedHires |-> fetchedCompleted,
                         newHires |-> email.new, newCompleted |-> didi.new,
                         emailCards |-> email.cards, didiCards |-> didi.cards,
                         threw |-> email.threw \/ didi.threw,
                         seq |-> 1 - lastCheck.seq]
        /\ sentMessages' = IF withId THEN TrackCards(sentMessages, email.cards \o didi.cards)
                           ELSE sentMessages
        /\ UNCHANGED <<now, didiConfigured, pushQuery, emailVars, urgency, clientVars, auditLog, run, lastCallback>>

\* The rosters a cycle may fetch: the completed roster is fetched only when the
\* ride service is configured, and is the empty list otherwise.
CompletedRosters == IF didiConfigured THEN SUBSET Hires ELSE {{}}

\* The periodic poll: setInterval(() => this.checkAndNotify(), ...), not forced.
TimerCheck ==
    \E preHires \in SUBSET Hires, fetchedCompleted \in CompletedRosters :
        CheckAndNotify(FALSE, preHires, fetchedCompleted, NoCity, FALSE)

\* POST /bot/check with its default body: a forced check.
ManualCheck ==
    \E preHires \in SUBSET Hires, fetchedCompleted \in CompletedRosters :
        CheckAndNotify(TRUE, preHires, fetchedCompleted, NoCity, FALSE)

\* A poll during which the messaging collaborator rejects the cards of one city.
CheckDuringOutage ==
    \E force \in BOOLEAN, preHires \in SUBSET Hires, fetchedCompleted \in CompletedRosters :
        \E downCity \in {CityOf(h) : h \in preHires \cup fetchedCompleted} :
            CheckAndNotify(force, preHires, fetchedCompleted, downCity, FALSE)

AdvanceDay ==
    /\ now' = (now + 24) % HoursPerWeek
    /\ UNCHANGED <<didiConfigured, botVars, pushQuery, emailVars, urgency, clientVars, callbackVars>>

AdvanceHour ==
    /\ now' = (now + 1) % HoursPerWeek
    /\ UNCHANGED <<didiConfigured, botVars, pushQuery, emailVars, urgency, clientVars, callbackVars>>

EvalShouldPush ==
    \E city \in CityLabels, hasNewHires \in BOOLEAN :
        /\ pushQuery' = [asked |-> TRUE, city |-> city, hasNew |-> hasNewHires,
                         at |-> now, due |-> ShouldPushForCity(city, hasNewHires)]
        /\ UNCHANGED <<now, didiConfigured, botVars, emailVars, urgency, clientVars, callbackVars>>

(***************************************************************************)
(* EmailService.  A string is the sequence of its pieces: a pinyin         *)
(* syllable, a decimal digit, the mail domain.  A name is the sequence of  *)
(* its characters; "U5F20" and "U7AE0" are two characters that are both    *)
(* read zhang, "U4F1F" is read wei.                                        *)
(***************************************************************************)
EMAIL_DOMAIN == <<"@guanghe.tv">>

VALID_DIGITS == <<1, 3, 5, 6, 7, 8, 9>>

\* A mutant of generateValidSuffixes: the two loops are exchanged, the ones
\* digit is the outer loop.
generateValidSuffixesOnesOuter ==
    VALID_DIGITS \o
    [k \in 1..(Len(VALID_DIGITS) * Len(VALID_DIGITS)) |->
        VALID_DIGITS[((k - 1) % Len(VALID_DIGITS)) + 1] * 10
            + VALID_DIGITS[((k - 1) \div Len(VALID_DIGITS)) + 1]]

generateValidSuffixes ==
    VALID_DIGITS \o
    [k \in 1..(Len(VALID_DIGITS) * Len(VALID_DIGITS)) |->
        VALID_DIGITS[((k - 1) \div Len(VALID_DIGITS)) + 1] * 10
            + VALID_DIGITS[((k - 1) % Len(VALID_DIGITS)) + 1]]

VALID_SUFFIXES == generateValidSuffixes

DigitChars == <<"0", "1", "2", "3", "4", "5", "6", "7", "8", "9">>

\* The decimal digits of n, as a template literal writes them.
RECURSIVE DigitsOf(_)
DigitsOf(n) ==
    IF n < 10 THEN <<DigitChars[n + 1]>>
    ELSE Append(DigitsOf(n \div 10), DigitChars[(n % 10) + 1])

\* pinyin() of one character, without tone and in lower case; a character
\* that is not Chinese is kept.
PinyinOfChar(ch) ==
    CASE ch = "U5F20" -> "zhang"
      [] ch = "U7AE0" -> "zhang"
      [] ch = "U4F1F" -> "wei"
      [] OTHER -> ch

generatePinyin(chineseName) ==
    IF chineseName = <<>> THEN <<>>
    ELSE [i \in DOMAIN chineseName |-> PinyinOfChar(chineseName[i])]

Includes(seq, e) == \E j \in DOMAIN seq : seq[j] = e

\* The email of the k-th suffix of the sequence.
SuffixEmail(basePinyin, k) == basePinyin \o DigitsOf(VALID_SUFFIXES[k]) \o EMAIL_DOMAIN

\* No preferred email is the empty string.
NoEmail == <<>>

\* A mutant of BuildCandidateList: the includes test is missing, every
\* suffix email is pushed.
BuildCandidateListPushesAll(basePinyin, preferredEmail) ==
    LET baseEmail == basePinyin \o EMAIL_DOMAIN
        first == IF preferredEmail # NoEmail /\ preferredEmail # baseEmail
                    THEN <<preferredEmail>> ELSE <<>>
    IN  Append(first, baseEmail)
            \o [k \in DOMAIN VALID_SUFFIXES |-> SuffixEmail(basePinyin, k)]

\* The head of the list, then every suffix email the list does not include yet.
BuildCandidateList(basePinyin, preferredEmail) ==
    LET baseEmail == basePinyin \o EMAIL_DOMAIN
        first == IF preferredEmail # NoEmail /\ preferredEmail # baseEmail
                    THEN <<preferredEmail>> ELSE <<>>
        head == Append(first, baseEmail)
        pushed == {k \in DOMAIN VALID_SUFFIXES :
                      /\ ~Includes(head, SuffixEmail(basePinyin, k))
                      /\ \A j \in 1..(k - 1) :
                             SuffixEmail(basePinyin, j) # SuffixEmail(basePinyin, k)}
        kept == SelectSeq([k \in DOMAIN VALID_SUFFIXES |-> k], LAMBDA k : k \in pushed)
    IN  head \o [n \in DOMAIN kept |-> SuffixEmail(basePinyin, kept[n])]

NoResult == [status |-> "none", email |-> NoEmail, attempts |-> 0, error |-> "none"]

Failure(error) == [status |-> "error", email |-> NoEmail, attempts |-> 0, error |-> error]

NoProv ==
    [pc |-> "idle", name |-> <<>>, preferredEmail |-> NoEmail, candidates |-> <<>>,
     i |-> 0, startIndex |-> 0, probes |-> <<>>, commits |-> <<>>, result |-> NoResult]

\* The entry of provisionEmailWithRetry, up to the first probe.
StartProvision(chineseName, preferredEmail) ==
    LET basePinyin == generatePinyin(chineseName)
    IN  IF basePinyin = <<>>
           THEN [NoProv EXCEPT !.pc = "done", !.name = chineseName,
                               !.preferredEmail = preferredEmail,
                               !.result = Failure("noPinyin")]
        ELSE [NoProv EXCEPT !.pc = "probe", !.name = chineseName,
                            !.preferredEmail = preferredEmail,
                            !.candidates = BuildCandidateList(basePinyin, preferredEmail),
                            !.i = 1]

\* A mutant of AfterProbe: startIndex is never assigned, the commit phase
\* starts at the head of the list.
AfterProbeStartsAtHead(p, exists) ==
    LET q == [p EXCEPT !.probes = Append(@, exists)]
    IN  IF ~exists THEN [q EXCEPT !.pc = "commit", !.startIndex = 1, !.i = 1]
        ELSE IF p.i = Len(p.candidates)
            THEN [q EXCEPT !.pc = "done", !.result = Failure("allTakenByActive")]
        ELSE [q EXCEPT !.i = p.i + 1]

\* A mutant of AfterProbe: the check of the last candidate is missing, the
\* commit phase starts at index 0 when every candidate is taken.
AfterProbeNoExhaustionCheck(p, exists) ==
    LET q == [p EXCEPT !.probes = Append(@, exists)]
    IN  IF ~exists THEN [q EXCEPT !.pc = "commit", !.startIndex = p.i]
        ELSE IF p.i = Len(p.candidates)
            THEN [q EXCEPT !.pc = "commit", !.startIndex = 1, !.i = 1]
        ELSE [q EXCEPT !.i = p.i + 1]

\* Phase 1, one turn of the loop: the answer of checkEmailExists(candidates[i]).
AfterProbe(p, exists) ==
    LET q == [p EXCEPT !.probes = Append(@, exists)]
    IN  IF ~exists THEN [q EXCEPT !.pc = "commit", !.startIndex = p.i]
        ELSE IF p.i = Len(p.candidates)
            THEN [q EXCEPT !.pc = "done", !.result = Failure("allTakenByActive")]
        ELSE [q EXCEPT !.i = p.i + 1]

\* A mutant of AfterCommit: every failed commit moves on to the next candidate.
AfterCommitRetriesAnyFailure(p, outcome) ==
    LET email == p.candidates[p.i]
        q == [p EXCEPT !.commits = Append(@, [email |-> email, outcome |-> outcome])]
    IN  IF outcome = "success"
           THEN [q EXCEPT !.pc = "done",
                          !.result = [status |-> "success", email |-> email,
                                      attempts |-> p.i - p.startIndex + 1, error |-> "none"]]
        ELSE IF p.i = Len(p.candidates)
            THEN [q EXCEPT !.pc = "done", !.result = Failure("allCandidatesUsedUp")]
        ELSE [q EXCEPT !.i = p.i + 1]

\* A mutant of AfterCommit: a duplicate answer is not looked at, the email
\* counts as committed.
AfterCommitIgnoresDuplicate(p, outcome) ==
    LET email == p.candidates[p.i]
        q == [p EXCEPT !.commits = Append(@, [email |-> email, outcome |-> outcome])]
    IN  IF outcome = "success" \/ outcome = "duplicate"
           THEN [q EXCEPT !.pc = "done",
                          !.result = [status |-> "success", email |-> email,
                                      attempts |-> p.i - p.startIndex + 1, error |-> "none"]]
        ELSE [q EXCEPT !.pc = "done", !.result = Failure("commitFailed")]

\* Phase 2, one turn of the loop: the outcome of updateWorkEmail(id, candidates[i]):
\* "success", "duplicate" (code 1119 or 1161038) or "other" (it throws).
AfterCommit(p, outcome) ==
    LET email == p.candidates[p.i]
        q == [p EXCEPT !.commits = Append(@, [email |-> email, outcome |-> outcome])]
    IN  IF outcome = "success"
           THEN [q EXCEPT !.pc = "done",
                          !.result = [status |-> "success", email |-> email,
                                      attempts |-> p.i - p.startIndex + 1, error |-> "none"]]
        ELSE IF outcome = "duplicate"
            THEN IF p.i = Len(p.candidates)
                    THEN [q EXCEPT !.pc = "done", !.result = Failure("allCandidatesUsedUp")]
                 ELSE [q EXCEPT !.i = p.i + 1]
        ELSE [q EXCEPT !.pc = "done", !.result = Failure("commitFailed")]

\* The names and the preferred emails the callers pass.
ProvisionNames == {<<>>, <<"U5F20", "U4F1F">>}

PreferredEmails ==
    {NoEmail,
     <<"zhang", "wei">> \o EMAIL_DOMAIN,
     <<"zhang", "wei", "3">> \o EMAIL_DOMAIN,
     <<"it">> \o EMAIL_DOMAIN}

ProvisionEmailWithRetry ==
    /\ prov.pc = "idle"
    /\ \E chineseName \in ProvisionNames, preferredEmail \in PreferredEmails :
           prov' = StartProvision(chineseName, preferredEmail)
    /\ UNCHANGED <<pollVars, callbackVars, batch, urgency, clientVars>>

CheckEmailExists ==
    /\ prov.pc = "probe"
    /\ \E exists \in BOOLEAN : prov' = AfterProbe(prov, exists)
    /\ UNCHANGED <<pollVars, callbackVars, batch, urgency, clientVars>>

UpdateWorkEmail ==
    /\ prov.pc = "commit"
    /\ \E outcome \in {"success", "duplicate", "other"} : prov' = AfterCommit(prov, outcome)
    /\ UNCHANGED <<pollVars, callbackVars, batch, urgency, clientVars>>

ProvisionReturn ==
    /\ prov.pc = "done"
    /\ prov' = NoProv
    /\ UNCHANGED <<pollVars, callbackVars, batch, urgency, clientVars>>

(***************************************************************************)
(* batchGenerateEmailsLocal: users.map(...) over one shared usedEmails set. *)
(* One step is one call of the map callback; the call is synchronous, and  *)
(* nothing else runs between two steps of it.                              *)
(***************************************************************************)
MaxBatch == 58

MaxMixed == 3

\* The names of a batch: no name, two names read zhangwei, and a name that
\* ends with the digit 1 and is read zhangwei1.
BatchNames ==
    {<<>>, <<"U5F20", "U4F1F">>, <<"U7AE0", "U4F1F">>, <<"U5F20", "U4F1F", "1">>}

\* The batches: every short batch of these names, and the batches of one
\* name repeated.
BatchInputs ==
    UNION {[1..n -> BatchNames] : n \in 1..MaxMixed}
        \cup {[i \in 1..n |-> <<"U5F20", "U4F1F">>] : n \in 1..MaxBatch}

NoSuffix == 0

NoBatch == [pc |-> "idle", users |-> <<>>, usedEmails |-> {}, out |-> <<>>]

\* for (const s of VALID_SUFFIXES) ... break: the index of the first suffix
\* whose email the batch has not used, 0 when the loop ends without one.
FirstFreeSuffix(basePinyin, usedEmails) ==
    LET free == {k \in DOMAIN VALID_SUFFIXES : SuffixEmail(basePinyin, k) \notin usedEmails}
    IN  IF free = {} THEN 0 ELSE CHOOSE k \in free : \A j \in free : k <= j

\* The map callback for one user: the record returned and the email added to
\* usedEmails.
SuggestEmail(name, usedEmails) ==
    LET basePinyin == generatePinyin(name)
        baseEmail == basePinyin \o EMAIL_DOMAIN
        k == IF baseEmail \in usedEmails THEN FirstFreeSuffix(basePinyin, usedEmails) ELSE 0
    IN  IF basePinyin = <<>>
           THEN [suggested_email |-> NoEmail, email_suffix |-> NoSuffix,
                 email_base_pinyin |-> <<>>]
        ELSE [suggested_email |-> IF k = 0 THEN baseEmail ELSE SuffixEmail(basePinyin, k),
              email_suffix |-> IF k = 0 THEN NoSuffix ELSE VALID_SUFFIXES[k],
              email_base_pinyin |-> basePinyin]

BatchGenerateEmailsLocal ==
    /\ batch.pc = "idle"
    /\ \E users \in BatchInputs : batch' = [NoBatch EXCEPT !.pc = "map", !.users = users]
    /\ UNCHANGED <<pollVars, callbackVars, prov, urgency, clientVars>>

BatchMapUser ==
    /\ batch.pc = "map"
    /\ LET rec == SuggestEmail(batch.users[Len(batch.out) + 1], batch.usedEmails)
           out == Append(batch.out, rec)
       IN  batch' = [batch EXCEPT
                        !.out = out,
                        !.usedEmails = IF rec.suggested_email = NoEmail THEN @
                                       ELSE @ \cup {rec.suggested_email},
                        !.pc = IF Len(out) = Len(batch.users) THEN "done" ELSE "map"]
    /\ UNCHANGED <<pollVars, callbackVars, prov, urgency, clientVars>>

BatchReturn ==
    /\ batch.pc = "done"
    /\ batch' = NoBatch
    /\ UNCHANGED <<pollVars, callbackVars, prov, urgency, clientVars>>

(***************************************************************************)
(* The card callbacks of BotService.                                       *)
(***************************************************************************)
MaxRunItems == 2

MaxAudit == 1

AUDIT_LOG_CAP == 200

\* A mutant of AddAudit: the log is cut to its first 200 entries.
AddAuditKeepsOldest(log, action, data) ==
    LET pushed == Append(log, [timestamp |-> now, action |-> action, data |-> data])
    IN  IF Len(pushed) > AUDIT_LOG_CAP
           THEN SubSeq(pushed, 1, AUDIT_LOG_CAP)
        ELSE pushed

\* _addAudit: the entry is pushed and the log is cut to its last 200 entries.
AddAudit(log, action, data) ==
    LET pushed == Append(log, [timestamp |-> now, action |-> action, data |-> data])
    IN  IF Len(pushed) > AUDIT_LOG_CAP
           THEN SubSeq(pushed, Len(pushed) - AUDIT_LOG_CAP + 1, Len(pushed))
        ELSE pushed

NoRun == [pc |-> "idle"]

NoCallback ==
    [kind |-> "none", payload |-> "none", toast |-> "none", reached |-> FALSE,
     provisioned |-> FALSE, cardsSent |-> 0, seq |-> 0]

\* What a callback did and returned: the handler that ran, the type of the
\* toast, whether a provisioning collaborator was called and whether it
\* succeeded, the notifications sent; seq is the parity of the number of
\* callbacks and summaries handled so far.
Reply(kind, payload, toast, reached, provisioned, cardsSent) ==
    [kind |-> kind, payload |-> payload, toast |-> toast, reached |-> reached,
     provisioned |-> provisioned, cardsSent |-> cardsSent, seq |-> 1 - lastCallback.seq]

\* The values of a callback's action: a string that is not JSON, the JSON
\* null, an object without action, an object with an action that is none of
\* the five, and the five actions.
CallbackPayloads ==
    {"notJSON", "null", "noAction", "unknownAction", "provision_email",
     "provision_all_email", "provision_didi", "provision_all_didi", "refresh"}

\* A mutant of ActionOf: the default branch of the switch runs the refresh.
ActionOfDefaultRefresh(payload) ==
    CASE payload = "notJSON" -> "invalid"
      [] payload \in {"null", "noAction"} -> "none"
      [] payload \in {"provision_email", "provision_all_email", "provision_didi",
                      "provision_all_didi", "refresh"} -> payload
      [] OTHER -> "refresh"

\* handleCardCallback up to its switch: the handler the payload is given to.
ActionOf(payload) ==
    CASE payload = "notJSON" -> "invalid"
      [] payload \in {"null", "noAction"} -> "none"
      [] payload \in {"provision_email", "provision_all_email", "provision_didi",
                      "provision_all_didi", "refresh"} -> payload
      [] OTHER -> "unknown"

\* The users of a batch callback: the k-th user of the list is named k.
RunUsers == {[k \in 1..n |-> k] : n \in 0..MaxRunItems}

Call(k) == [e |-> "call", item |-> k]

Outcome(k) == [e |-> "outcome", item |-> k]

\* A mutant of StartRun: the provisioning calls of all the items are issued
\* at once.
StartRunAllAtOnce(action, users, log) ==
    [pc |-> "item", action |-> action, users |-> users, k |-> 1, results |-> <<>>,
     events |-> [j \in DOMAIN users |-> Call(j)] \o <<[e |-> "ack"]>>, logAtStart |-> log]

\* _executeBatchEmailProvision / _executeBatchDidiProvision is called and not
\* awaited: it runs up to its first await, the provisioning call of the first
\* user, and the handler then returns its toast.
StartRun(action, users, log) ==
    [pc |-> "item", action |-> action, users |-> users, k |-> 1, results |-> <<>>,
     events |-> <<Call(1), [e |-> "ack"]>>, logAtStart |-> log]

\* _handleProvisionAllEmail and _handleProvisionAllDidi.
HandleProvisionAll ==
    /\ run.pc = "idle"
    /\ Len(auditLog) < MaxAudit
    /\ \E payload \in CallbackPayloads, users \in RunUsers :
           LET action == ActionOf(payload)
           IN  /\ action \in {"provision_all_email", "provision_all_didi"}
               /\ IF users = <<>>
                      THEN /\ lastCallback' = Reply(action, payload, "warning", FALSE, FALSE, 0)
                           /\ run' = run
                   ELSE IF action = "provision_all_didi" /\ ~didiConfigured
                      THEN /\ lastCallback' = Reply(action, payload, "error", FALSE, FALSE, 0)
                           /\ run' = run
                   ELSE /\ lastCallback' = Reply(action, payload, "info", TRUE, FALSE, 0)
                        /\ run' = StartRun(action, users, auditLog)
    /\ UNCHANGED <<pollVars, emailVars, urgency, clientVars, sentMessages, auditLog>>

\* The aggregate audit entry of a run.
Aggregate(users, results) ==
    [total |-> Len(users),
     successful |-> Cardinality({j \in DOMAIN results : results[j].success}),
     failed |-> Cardinality({j \in DOMAIN results : ~results[j].success})]

\* A mutant of AfterItem: a failed item is not caught, it ends the loop.
AfterItemAbortsOnFailure(r, log, outcome) ==
    LET results == IF outcome = "success"
                      THEN Append(r.results, [name |-> r.users[r.k], success |-> TRUE])
                   ELSE r.results
        events == Append(r.events, Outcome(r.k))
    IN  IF r.k < Len(r.users) /\ outcome = "success"
           THEN [run |-> [r EXCEPT !.results = results, !.k = r.k + 1,
                                   !.events = Append(events, Call(r.k + 1))],
                 auditLog |-> log]
        ELSE [run |-> [r EXCEPT !.results = results, !.pc = "card",
                                !.events = Append(events, [e |-> "audit"])],
              auditLog |-> AddAudit(log, r.action, Aggregate(r.users, results))]

\* One turn of the loop of a run, from the point where the provisioning call
\* of user k settles: the result is pushed; then the call of the next user is
\* issued or, after the last user, the aggregate entry is added to the audit
\* log and the result card is sent.  outcome is "success", or the error the
\* call threw: "permanent" or "exhausted".
AfterItem(r, log, outcome) ==
    LET results == Append(r.results, [name |-> r.users[r.k], success |-> outcome = "success"])
        events == Append(r.events, Outcome(r.k))
    IN  IF r.k < Len(r.users)
           THEN [run |-> [r EXCEPT !.results = results, !.k = r.k + 1,
                                   !.events = Append(events, Call(r.k + 1))],
                 auditLog |-> log]
        ELSE [run |-> [r EXCEPT !.results = results, !.pc = "card",
                                !.events = Append(events, [e |-> "audit"])],
              auditLog |-> AddAudit(log, r.action, Aggregate(r.users, results))]

ProvisionSettles ==
    /\ run.pc = "item"
    /\ \E outcome \in {"success", "permanent", "exhausted"} :
           LET after == AfterItem(run, auditLog, outcome)
           IN  run' = after.run /\ auditLog' = after.auditLog
    /\ UNCHANGED <<pollVars, emailVars, urgency, clientVars, sentMessages, lastCallback>>

\* The result card is sent; an error of the send is caught and logged.
ResultCardSettles ==
    /\ run.pc = "card"
    /\ \E sent \in BOOLEAN :
           run' = [run EXCEPT !.pc = "done",
                              !.events = Append(@, [e |-> IF sent THEN "card" ELSE "cardFailed"])]
    /\ UNCHANGED <<pollVars, emailVars, urgency, clientVars, sentMessages, auditLog, lastCallback>>

RunEnds ==
    /\ run.pc = "done"
    /\ run' = NoRun
    /\ UNCHANGED <<pollVars, emailVars, urgency, clientVars, sentMessages, auditLog, lastCallback>>

\* handleCardCallback for a value that does not parse, is empty, has no
\* action or has an action the switch does not know.
InvalidCallback ==
    /\ \E payload \in CallbackPayloads :
           /\ ActionOf(payload) \in {"invalid", "none", "unknown"}
           /\ lastCallback' = Reply(ActionOf(payload), payload, "info", FALSE, FALSE, 0)
    /\ UNCHANGED <<pollVars, emailVars, urgency, clientVars, sentMessages, auditLog, run>>

\* _handleProvisionEmail and, past its two guards, _handleProvisionDidi: the
\* provisioning call, the audit entry and the confirmation card.  provisioning
\* is "success" or "failed" (the call threw); cardSent is FALSE when _sendCard
\* throws.  Of the data of an audit entry the success flag is kept.
SingleProvision(action, log, provisioning, cardSent) ==
    IF provisioning = "failed"
       THEN [auditLog |-> AddAudit(log, action, [success |-> FALSE]),
             toast |-> "error", cardsSent |-> 0]
    ELSE LET audited == AddAudit(log, action, [success |-> TRUE])
         IN  IF cardSent
                THEN [auditLog |-> audited, toast |-> "success", cardsSent |-> 1]
             ELSE [auditLog |-> AddAudit(audited, action, [success |-> FALSE]),
                   toast |-> "error", cardsSent |-> 0]

HandleProvisionEmail ==
    /\ Len(auditLog) < MaxAudit
    /\ \E payload \in CallbackPayloads,
          provisioning \in {"success", "failed"}, cardSent \in BOOLEAN :
           /\ ActionOf(payload) = "provision_email"
           /\ LET done == SingleProvision("provision_email", auditLog, provisioning, cardSent)
              IN  /\ auditLog' = done.auditLog
                  /\ lastCallback' = Reply("provision_email", payload, done.toast, TRUE,
                                           provisioning = "success", done.cardsSent)
    /\ UNCHANGED <<pollVars, emailVars, urgency, clientVars, sentMessages, run>>

HandleProvisionDidi ==
    /\ Len(auditLog) < MaxAudit
    /\ \E payload \in CallbackPayloads, hasPhone \in BOOLEAN,
          provisioning \in {"success", "failed"}, cardSent \in BOOLEAN :
           /\ ActionOf(payload) = "provision_didi"
           /\ IF ~didiConfigured \/ ~hasPhone
                 THEN /\ auditLog' = auditLog
                      /\ lastCallback' = Reply("provision_didi", payload, "error", FALSE,
                                               FALSE, 0)
              ELSE LET done == SingleProvision("provision_didi", auditLog,
                                               provisioning, cardSent)
                   IN  /\ auditLog' = done.auditLog
                       /\ lastCallback' = Reply("provision_didi", payload, done.toast, TRUE,
                                                provisioning = "success", done.cardsSent)
    /\ UNCHANGED <<pollVars, emailVars, urgency, clientVars, sentMessages, run>>

\* The callbacks handled in a behaviour that starts from a filled store.
MaxAppends == 3

\* The audit log after n provision_email callbacks, one an hour up to the
\* last hour, every second of which succeeded.
PastLog(n) ==
    [i \in 1..n |->
        [timestamp |-> (now + 2 * HoursPerWeek - (n - i + 1)) % HoursPerWeek,
         action |-> "provision_email", data |-> [success |-> i % 2 = 0]]]

\* _handleProvisionEmail, and the hour that passes until the next callback.
HandleProvisionEmailHourly ==
    /\ now < 20 + MaxAppends
    /\ now' = now + 1
    /\ \E provisioning \in {"success", "failed"}, cardSent \in BOOLEAN :
           LET done == SingleProvision("provision_email", auditLog, provisioning, cardSent)
           IN  /\ auditLog' = done.auditLog
               /\ lastCallback' = Reply("provision_email", "provision_email", done.toast,
                                        TRUE, provisioning = "success", done.cardsSent)
    /\ UNCHANGED <<didiConfigured, botVars, pushQuery, emailVars, urgency, clientVars, sentMessages, run>>

MaxTracked == 1

\* The answers of getEnrichedPreHires('preboarding', false): it throws, or it
\* returns a roster.
FetchFailed == [ok |-> FALSE, hires |-> {}]

Fetches == {FetchFailed} \cup {[ok |-> TRUE, hires |-> S] : S \in SUBSET Hires}

\* A mutant of Refresh: the refresh is run as a forced check, which replaces
\* the KnownSet by the roster it fetched.
RefreshAsForcedCheck(known, wasInitialized, tracked, fetched, cardSent, withId) ==
    IF fetched = FetchFailed
       THEN [known |-> known, initialized |-> wasInitialized, tracked |-> tracked,
             toast |-> "error", cardsSent |-> 0]
    ELSE IF ~cardSent
       THEN [known |-> fetched.hires, initialized |-> TRUE, tracked |-> tracked,
             toast |-> "error", cardsSent |-> 0]
    ELSE [known |-> fetched.hires, initialized |-> TRUE,
          tracked |-> IF fetched.hires # {} /\ withId
                         THEN TrackMessage(tracked, fetched.hires)
                      ELSE tracked,
          toast |-> "success", cardsSent |-> 1]

\* _handleRefresh: the roster is fetched again and sent as one card, which is
\* tracked when it has a message id; with an empty roster a plain card is
\* sent.  The KnownSet and the initialized flag are not assigned.
Refresh(known, wasInitialized, tracked, fetched, cardSent, withId) ==
    IF fetched = FetchFailed \/ ~cardSent
       THEN [known |-> known, initialized |-> wasInitialized, tracked |-> tracked,
             toast |-> "error", cardsSent |-> 0]
    ELSE [known |-> known, initialized |-> wasInitialized,
          tracked |-> IF fetched.hires # {} /\ withId
                         THEN TrackMessage(tracked, fetched.hires)
                      ELSE tracked,
          toast |-> "success", cardsSent |-> 1]

HandleRefresh ==
    /\ \E payload \in CallbackPayloads, fetched \in Fetches, cardSent \in BOOLEAN,
          withId \in {w \in BOOLEAN : w => Len(sentMessages) < MaxTracked} :
           /\ ActionOf(payload) = "refresh"
           /\ LET done == Refresh(lastKnownIds, initialized, sentMessages, fetched,
                                  cardSent, withId)
              IN  /\ lastKnownIds' = done.known
                  /\ initialized' = done.initialized
                  /\ sentMessages' = done.tracked
                  /\ lastCallback' = Reply("refresh", payload, done.toast, FALSE, FALSE,
                                           done.cardsSent)
    /\ UNCHANGED <<now, didiConfigured, lastKnownCompletedIds, completedInitialized,
                   lastCheck, pushQuery, emailVars, urgency, clientVars, auditLog, run>>

\* The tracked messages after n tracked cards: of the first record, of the
\* last record and of the whole roster in turn.
PastTracked(n) ==
    [i \in 1..n |-> IF i % 3 = 1 THEN {1} ELSE IF i % 3 = 2 THEN {NumHires} ELSE Hires]

\* _handleRefresh, and the hour that passes until the next callback.
RefreshHourly(fetched, cardSent, withId) ==
    /\ now < 20 + MaxAppends
    /\ now' = now + 1
    /\ LET done == Refresh(lastKnownIds, initialized, sentMessages, fetched, cardSent, withId)
       IN  /\ lastKnownIds' = done.known
           /\ initialized' = done.initialized
           /\ sentMessages' = done.tracked
           /\ lastCallback' = Reply("refresh", "refresh", done.toast, FALSE, FALSE,
                                    done.cardsSent)
    /\ UNCHANGED <<didiConfigured, lastKnownCompletedIds, completedInitialized,
                   lastCheck, pushQuery, emailVars, urgency, clientVars, auditLog, run>>

HandleRefreshHourly ==
    \E fetched \in Fetches, cardSent \in BOOLEAN, withId \in BOOLEAN :
        RefreshHourly(fetched, cardSent, withId)

\* sendDailySummary: the roster is fetched and sent as one summary card; an
\* error of the fetch or of the send is caught and logged.  Nothing of the
\* bot's state is assigned.
SendDailySummary ==
    /\ \E fetched \in Fetches, cardSent \in BOOLEAN :
           lastCallback' = Reply("dailySummary", "none", "none", FALSE, FALSE,
                                 IF fetched.ok /\ cardSent THEN 1 ELSE 0)
    /\ UNCHANGED <<pollVars, emailVars, urgency, clientVars, sentMessages, auditLog, run>>

\* A periodic poll whose cards may come back with message ids.
TimerCheckTracked ==
    \E preHires \in SUBSET Hires, fetchedCompleted \in CompletedRosters,
       withId \in {w \in BOOLEAN : w => Len(sentMessages) < MaxTracked} :
        CheckAndNotify(FALSE, preHires, fetchedCompleted, NoCity, withId)

(***************************************************************************)
(* Urgency tiers.  An onboarding date is a date string YYYY-MM-DD, which   *)
(* compares as the number of its day; a record may have no date.  The      *)
(* email card labels each date group with a colour, the daily summary      *)
(* sorts the records into four groups, each shown under a colour.          *)
(***************************************************************************)
\* The days a date may lie after the latest "today".
MaxDays == 8

\* A missing onboardingDate (the card groups it under the key of unknown dates).
NoDate == 0

Todays == 2..3

Dates == 1..(3 + MaxDays)

\* The rosters: some records, each with its onboarding date or none.
Rosters == UNION {[S -> Dates \cup {NoDate}] : S \in SUBSET Hires}

WEEK_DAYS == 7

\* _buildEmailCard, the label of a date group.  The key of unknown dates is
\* not <= today as a string, and its daysUntil is NaN, which no comparison
\* accepts.
DateLabel(date, today) ==
    IF date # NoDate /\ date <= today
    THEN "red"
    ELSE LET daysUntil == date - today
         IN  IF date # NoDate /\ daysUntil <= 1 THEN "orange"
             ELSE IF date # NoDate /\ daysUntil <= 3 THEN "yellow"
             ELSE "green"

\* sendDailySummary, the four filters over the roster.
SummaryGroups(roster, today) ==
    LET tomorrow == today + 1
        nextWeek == today + WEEK_DAYS
        onboardingDate(h) == roster[h]
        dated(h) == onboardingDate(h) # NoDate
    IN  [urgent   |-> {h \in DOMAIN roster : dated(h) /\ onboardingDate(h) <= today},
         soon     |-> {h \in DOMAIN roster : dated(h) /\ onboardingDate(h) > today
                                             /\ onboardingDate(h) <= tomorrow},
         thisWeek |-> {h \in DOMAIN roster : dated(h) /\ onboardingDate(h) > tomorrow
                                             /\ onboardingDate(h) <= nextWeek},
         later    |-> {h \in DOMAIN roster : ~dated(h) \/ onboardingDate(h) > nextWeek}]

\* _buildDailySummaryCard, the colour each group is shown under.
SummaryColor == [urgent |-> "red", soon |-> "orange", thisWeek |-> "yellow", later |-> "green"]

NoGroups == [urgent |-> {}, soon |-> {}, thisWeek |-> {}, later |-> {}]

NoLabels == [date \in {} |-> "green"]

NoUrgency ==
    [kind |-> "none", today |-> 0, roster |-> [h \in {} |-> NoDate],
     labels |-> NoLabels, groups |-> NoGroups]

\* _buildEmailCard over a roster: the records are grouped by date and each
\* group is labelled.
BuildEmailCard ==
    /\ \E today \in Todays, roster \in Rosters \ {[h \in {} |-> NoDate]} :
           urgency' = [kind |-> "emailCard", today |-> today, roster |-> roster,
                       labels |-> [date \in {roster[h] : h \in DOMAIN roster} |->
                                       DateLabel(date, today)],
                       groups |-> NoGroups]
    /\ UNCHANGED <<pollVars, prov, batch, callbackVars, clientVars>>

\* sendDailySummary, the grouping of the fetched roster: an empty roster is
\* reported by a simple card, without groups.
GroupDailySummary ==
    /\ \E today \in Todays, roster \in Rosters :
           urgency' = [kind |-> "dailySummary", today |-> today, roster |-> roster,
                       labels |-> NoLabels,
                       groups |-> IF DOMAIN roster = {} THEN NoGroups
                                  ELSE SummaryGroups(roster, today)]
    /\ UNCHANGED <<pollVars, prov, batch, callbackVars, clientVars>>


(***************************************************************************)
(* The ride-service client.  Every request passes _throttle before it is   *)
(* sent.  Time is counted in ms and passes in ticks; a timer fires when    *)
(* its delay has elapsed.                                                  *)
(***************************************************************************)
REQUEST_INTERVAL_MS == 160

\* The callers of DidiService.request that may overlap: batch runs, a poll.
MaxCallers == 2

\* The requests of a behaviour.
MaxRequests == 3

Callers == 1..MaxCallers

Tick == REQUEST_INTERVAL_MS \div 4

\* At construction _lastRequestTime is 0 and the clock is past the interval.
NoDidi ==
    [time |-> REQUEST_INTERVAL_MS, lastRequestTime |-> 0,
     callers |-> [c \in Callers |-> [pc |-> "idle", wake |-> 0]],
     left |-> <<>>]

\* _throttle up to its await, from request: with the interval elapsed the
\* caller stores the time and leaves the gate; otherwise it sleeps for the
\* rest of the interval.
Throttle(c) ==
    /\ gate.callers[c].pc = "idle"
    /\ Len(gate.left) + Cardinality({d \in Callers : gate.callers[d].pc = "sleeping"})
           < MaxRequests
    /\ LET elapsed == gate.time - gate.lastRequestTime
       IN  IF elapsed < REQUEST_INTERVAL_MS
              THEN gate' = [gate EXCEPT
                               !.callers[c] = [pc |-> "sleeping",
                                               wake |-> gate.time + (REQUEST_INTERVAL_MS - elapsed)]]
           ELSE gate' = [gate EXCEPT !.lastRequestTime = gate.time,
                                     !.callers[c].pc = "sent",
                                     !.left = Append(@, gate.time)]
    /\ UNCHANGED <<botAll, fetch, req, timers, member, handling, matcher, cycles, auditReply>>

\* _throttle after its await: the timer has fired, the caller stores the time
\* and leaves the gate.
ThrottleWakes(c) ==
    /\ gate.callers[c].pc = "sleeping"
    /\ gate.time >= gate.callers[c].wake
    /\ gate' = [gate EXCEPT !.lastRequestTime = gate.time,
                            !.callers[c].pc = "sent",
                            !.left = Append(@, gate.time)]
    /\ UNCHANGED <<botAll, fetch, req, timers, member, handling, matcher, cycles, auditReply>>

\* The request of a caller settles; the caller may call request again.
RequestSettles(c) ==
    /\ gate.callers[c].pc = "sent"
    /\ gate' = [gate EXCEPT !.callers[c].pc = "idle"]
    /\ UNCHANGED <<botAll, fetch, req, timers, member, handling, matcher, cycles, auditReply>>

\* Time passes, up to the next timer that is due.
Elapse ==
    /\ gate.time < 4 * REQUEST_INTERVAL_MS
    /\ \A c \in Callers :
           gate.callers[c].pc = "sleeping" => gate.time + Tick <= gate.callers[c].wake
    /\ gate' = [gate EXCEPT !.time = @ + Tick]
    /\ UNCHANGED <<botAll, fetch, req, timers, member, handling, matcher, cycles, auditReply>>

(***************************************************************************)
(* The HR client, getEnrichedPreHires: the ids are cut into pages, which   *)
(* are requested in waves.                                                 *)
(***************************************************************************)
BATCH_SIZE == 10

CONCURRENCY == 3

\* The ids fetchPreHires may return.
MaxIds == 31

\* The loop that fills batches: slices of BATCH_SIZE ids.
Batches(ids) ==
    [b \in 1..((Len(ids) + BATCH_SIZE - 1) \div BATCH_SIZE) |->
        SubSeq(ids, (b - 1) * BATCH_SIZE + 1,
               IF b * BATCH_SIZE < Len(ids) THEN b * BATCH_SIZE ELSE Len(ids))]

\* A mutant of Wave: all the remaining batches are requested at once.
WaveOfAllBatches(batches, i) == {b \in DOMAIN batches : b > i}

\* batches.slice(i, i + CONCURRENCY), as the indexes of the batches.
Wave(batches, i) == {b \in DOMAIN batches : b > i /\ b <= i + CONCURRENCY}

NoFetch ==
    [pc |-> "idle", ids |-> <<>>, batches |-> <<>>, i |-> 0, inFlight |-> {},
     pages |-> <<>>, settled |-> {}, enriched |-> {}]

\* How a page request settles: fulfilled with code 0 and the items of its
\* ids, fulfilled with another code, or rejected (request threw after its
\* retries).
PageOutcomes == {"items", "code", "rejected"}

\* A mutant of PageItems: the code of a fulfilled answer is not looked at.
PageItemsIgnoringCode(outcome, batchIds) ==
    IF outcome # "rejected" THEN {batchIds[k] : k \in DOMAIN batchIds} ELSE {}

\* results.forEach: the items a settled request adds to enrichedItems.
PageItems(outcome, batchIds) ==
    IF outcome = "items" THEN {batchIds[k] : k \in DOMAIN batchIds} ELSE {}

\* The requests of a wave, added to the pages requested so far.
RECURSIVE Requested(_, _, _)
Requested(pages, batches, wave) ==
    IF wave = {} THEN pages
    ELSE LET b == CHOOSE x \in wave : \A y \in wave : x <= y
         IN  Requested(Append(pages, batches[b]), batches, wave \ {b})

\* getEnrichedPreHires up to its first wave: the ids are fetched; with no id
\* it returns, otherwise the requests of the first wave are issued.
GetEnrichedPreHires ==
    /\ fetch.pc = "idle"
    /\ \E n \in 0..MaxIds :
           LET ids == [k \in 1..n |-> k]
               batches == Batches(ids)
           IN  fetch' = IF n = 0
                           THEN [NoFetch EXCEPT !.pc = "done"]
                        ELSE [pc |-> "wave", ids |-> ids, batches |-> batches, i |-> 0,
                              inFlight |-> Wave(batches, 0),
                              pages |-> Requested(<<>>, batches, Wave(batches, 0)),
                              settled |-> {}, enriched |-> {}]
    /\ UNCHANGED <<botAll, gate, req, timers, member, handling, matcher, cycles, auditReply>>

\* A page request settles, and its items, if any, are added.
PageSettles ==
    /\ fetch.pc = "wave"
    /\ \E b \in fetch.inFlight, outcome \in PageOutcomes :
           fetch' = [fetch EXCEPT
                        !.inFlight = @ \ {b},
                        !.settled = @ \cup {[page |-> b, outcome |-> outcome]},
                        !.enriched = @ \cup PageItems(outcome, fetch.batches[b])]
    /\ UNCHANGED <<botAll, gate, req, timers, member, handling, matcher, cycles, auditReply>>

\* Promise.allSettled resolves: the next wave is requested, or the loop ends.
WaveSettled ==
    /\ fetch.pc = "wave"
    /\ fetch.inFlight = {}
    /\ LET i == fetch.i + CONCURRENCY
       IN  fetch' = IF i < Len(fetch.batches)
                       THEN [fetch EXCEPT !.i = i,
                                          !.inFlight = Wave(fetch.batches, i),
                                          !.pages = Requested(@, fetch.batches,
                                                              Wave(fetch.batches, i))]
                    ELSE [fetch EXCEPT !.i = i, !.pc = "done"]
    /\ UNCHANGED <<botAll, gate, req, timers, member, handling, matcher, cycles, auditReply>>

\* getEnrichedPreHires returns.
FetchReturns ==
    /\ fetch.pc = "done"
    /\ fetch' = NoFetch
    /\ UNCHANGED <<botAll, gate, req, timers, member, handling, matcher, cycles, auditReply>>

(***************************************************************************)
(* The HR client, request: the attempts, the backoff and the token.  A     *)
(* token is named by its generation; the cache holds a generation, or 0.   *)
(***************************************************************************)
RETRIES == 2

ExpiredCodes == {99991663, 99991664}

\* The failures of an attempt: the HTTP status of the response (0: there is
\* no response), the code of its body, and whether the error is the
\* timeout of the client (ECONNABORTED), which has no response.
Failures ==
    {f \in [status : {0, 400, 401, 429, 500, 503}, code : {0} \cup ExpiredCodes,
            aborted : BOOLEAN] :
        /\ f.aborted => f.status = 0
        /\ f.status = 0 => f.code = 0}

NoFailure == [status |-> 0, code |-> 0, aborted |-> FALSE, none |-> TRUE]

\* A mutant of IsRetryable: every failure is retried.
IsRetryableAlways(f) == TRUE

IsRetryable(f) == f.status = 0 \/ f.status = 429 \/ f.status >= 500 \/ f.aborted

\* Math.min(1000 * Math.pow(2, attempt), 5000)
BackoffDelay(attempt) ==
    IF 1000 * 2 ^ attempt < 5000 THEN 1000 * 2 ^ attempt ELSE 5000

\* No call; the cache holds the token of generation 1.  failures, delays and
\* tokens are the failure, the backoff and the token of the attempts so far.
NoReq ==
    [pc |-> "idle", attempt |-> 0, cache |-> 1, token |-> 0, failures |-> <<>>,
     delays |-> <<>>, tokens |-> <<>>, refreshFailed |-> FALSE,
     result |-> "none", thrown |-> NoFailure]

\* request up to its first attempt: the token is read from the cache or,
\* the cache being empty, obtained, which may fail.
Request ==
    /\ req.pc = "idle"
    /\ IF req.cache # 0
          THEN req' = [NoReq EXCEPT !.pc = "attempt", !.token = req.cache,
                                   !.tokens = <<req.cache>>]
       ELSE \E obtained \in BOOLEAN :
                req' = IF obtained
                          THEN [NoReq EXCEPT !.pc = "attempt", !.token = 1, !.tokens = <<1>>]
                       ELSE [NoReq EXCEPT !.pc = "done", !.cache = 0,
                                          !.refreshFailed = TRUE, !.result = "thrown"]
    /\ UNCHANGED <<botAll, gate, fetch, timers, member, handling, matcher, cycles, auditReply>>

\* The attempt succeeds: request returns the data of the response.
AttemptSucceeds ==
    /\ req.pc = "attempt"
    /\ req' = [req EXCEPT !.pc = "done", !.result = "returned"]
    /\ UNCHANGED <<botAll, gate, fetch, timers, member, handling, matcher, cycles, auditReply>>

\* The attempt fails: a retryable failure before the last attempt starts the
\* backoff, any other failure is thrown.
AttemptFails ==
    /\ req.pc = "attempt"
    /\ \E f \in Failures :
           req' = IF IsRetryable(f) /\ req.attempt < RETRIES
                     THEN [req EXCEPT !.pc = "backoff",
                                      !.failures = Append(@, f),
                                      !.delays = Append(@, BackoffDelay(req.attempt))]
                  ELSE [req EXCEPT !.pc = "done", !.failures = Append(@, f),
                                   !.result = "thrown", !.thrown = f]
    /\ UNCHANGED <<botAll, gate, fetch, timers, member, handling, matcher, cycles, auditReply>>

\* The backoff is over: after a token-expired code the cache is emptied and
\* a new token is obtained, which may fail; then the next attempt is made.
BackoffEnds ==
    /\ req.pc = "backoff"
    /\ LET f == req.failures[Len(req.failures)]
       IN  IF f.code \in ExpiredCodes
              THEN \E obtained \in BOOLEAN :
                       req' = IF obtained
                                 THEN [req EXCEPT !.pc = "attempt", !.attempt = @ + 1,
                                                  !.cache = req.token + 1,
                                                  !.token = req.token + 1,
                                                  !.tokens = Append(@, req.token + 1)]
                              ELSE [req EXCEPT !.pc = "done", !.cache = 0,
                                               !.refreshFailed = TRUE,
                                               !.result = "thrown"]
           ELSE req' = [req EXCEPT !.pc = "attempt", !.attempt = @ + 1,
                                   !.tokens = Append(@, req.token)]
    /\ UNCHANGED <<botAll, gate, fetch, timers, member, handling, matcher, cycles, auditReply>>

\* request has returned or thrown; the frame is dropped, the cache stays
\* (its token is generation 1 of the next call).
RequestEnds ==
    /\ req.pc = "done"
    /\ req' = [NoReq EXCEPT !.cache = IF req.cache = 0 THEN 0 ELSE 1]
    /\ UNCHANGED <<botAll, gate, fetch, timers, member, handling, matcher, cycles, auditReply>>

(***************************************************************************)
(* The lifecycle of the bot: start, stop and the timers they set.  A timer *)
(* is named by a fresh id; 0 is the null of a field.                       *)
(***************************************************************************)
\* The calls of start in a behaviour.
MaxStarts == 2

NoTimers ==
    [pending |-> {}, timer |-> 0, dailyTimer |-> 0, nextId |-> 1, stopped |-> FALSE,
     last |-> [kind |-> "none", stopped |-> FALSE]]

\* start, for an enabled bot: a timeout of 10 s for the first cycle, which
\* no field keeps; the interval of the cycles, kept in timer; the timeout of
\* the first daily summary, kept in dailyTimer.
Start ==
    /\ timers.nextId < 4 * MaxStarts
    /\ LET id == timers.nextId
       IN  timers' = [timers EXCEPT
                         !.pending = @ \cup {[id |-> id, kind |-> "first"],
                                             [id |-> id + 1, kind |-> "interval"],
                                             [id |-> id + 2, kind |-> "dailyFirst"]},
                         !.timer = id + 1,
                         !.dailyTimer = id + 2,
                         !.nextId = id + 4,
                         !.stopped = FALSE]
    /\ UNCHANGED <<botAll, gate, fetch, req, member, handling, matcher, cycles, auditReply>>

\* stop: clearInterval(timer) and clearTimeout(dailyTimer), which clears a
\* timeout and an interval alike.
Stop ==
    /\ timers' = [timers EXCEPT
                     !.pending = {t \in @ : t.id # timers.timer /\ t.id # timers.dailyTimer},
                     !.timer = 0,
                     !.dailyTimer = 0,
                     !.stopped = TRUE]
    /\ UNCHANGED <<botAll, gate, fetch, req, member, handling, matcher, cycles, auditReply>>

\* A timer fires and starts a cycle or a daily summary: a timeout is spent,
\* an interval stays; the timeout of the first daily summary sets the
\* interval of the next ones and keeps it in dailyTimer.
TimerFires ==
    /\ \E t \in timers.pending :
           timers' =
               CASE t.kind = "first" ->
                        [timers EXCEPT !.pending = @ \ {t},
                                       !.last = [kind |-> "cycle", stopped |-> timers.stopped]]
                 [] t.kind = "interval" ->
                        [timers EXCEPT !.last = [kind |-> "cycle", stopped |-> timers.stopped]]
                 [] t.kind = "dailyFirst" ->
                        [timers EXCEPT
                            !.pending = (@ \ {t}) \cup {[id |-> t.id + 1, kind |-> "daily"]},
                            !.dailyTimer = t.id + 1,
                            !.last = [kind |-> "summary", stopped |-> timers.stopped]]
                 [] OTHER ->
                        [timers EXCEPT !.last = [kind |-> "summary", stopped |-> timers.stopped]]
    /\ UNCHANGED <<botAll, gate, fetch, req, member, handling, matcher, cycles, auditReply>>

(***************************************************************************)
(* Ride-service provisioning of one person: the pre-check, the add call,   *)
(* and what the two dispatchers make of the result.                        *)
(***************************************************************************)
\* The state of the clients, which a callback does not touch.
serviceVars == <<gate, fetch, req, timers, handling, matcher, cycles, auditReply>>

\* The answers of the collaborator to the pre-check (memberExists) and to the
\* add call (addMember): errno 50202 says that the person exists.
PreChecks == {"exists", "absent", "error"}

Adds == {"added", "exists", "error"}

\* A mutant of ProvisionMember: addMember throws the errno 50202 as it throws
\* any other error.
ProvisionMemberThrowsExists(precheck, add) ==
    IF precheck = "exists"
       THEN [threw |-> FALSE, success |-> TRUE, alreadyExists |-> TRUE, addCalls |-> 0]
    ELSE [threw |-> add # "added", success |-> add = "added", alreadyExists |-> FALSE,
          addCalls |-> 1]

\* provisionMember: with the person found by the pre-check it returns a
\* success and adds nothing; otherwise (an error of the pre-check counts as
\* not found) it calls addMember once, which returns a success, returns
\* alreadyExists without success on errno 50202, or throws.
ProvisionMember(precheck, add) ==
    IF precheck = "exists"
       THEN [threw |-> FALSE, success |-> TRUE, alreadyExists |-> TRUE, addCalls |-> 0]
    ELSE [threw |-> add = "error", success |-> add = "added",
          alreadyExists |-> add = "exists", addCalls |-> 1]

NoMember ==
    [kind |-> "none", item |-> 0, precheck |-> "absent", add |-> "added", addCalls |-> 0,
     cardSent |-> FALSE, auditAt |-> 0]

\* _handleProvisionDidi past its two guards, with the answers of the
\* collaborator: the handler does not read result.success.  The callback is
\* taken while no batch run is in progress.
HandleProvisionDidiMember ==
    /\ didiConfigured
    /\ run.pc = "idle"
    /\ Len(auditLog) < MaxAudit
    /\ \E precheck \in PreChecks, add \in Adds, cardSent \in BOOLEAN :
           LET result == ProvisionMember(precheck, add)
               provisioning == IF result.threw THEN "failed" ELSE "success"
               done == SingleProvision("provision_didi", auditLog, provisioning, cardSent)
           IN  /\ auditLog' = done.auditLog
               /\ lastCallback' = Reply("provision_didi", "provision_didi", done.toast, TRUE,
                                        provisioning = "success", done.cardsSent)
               /\ member' = [kind |-> "single", item |-> 0, precheck |-> precheck,
                             add |-> add, addCalls |-> result.addCalls,
                             cardSent |-> cardSent, auditAt |-> Len(auditLog) + 1]
    /\ UNCHANGED <<pollVars, emailVars, urgency, serviceVars, sentMessages, run>>

\* One turn of the loop of _executeBatchDidiProvision, with the answers of
\* the collaborator: a row is a success unless provisionMember threw.
DidiMemberSettles ==
    /\ run.pc = "item"
    /\ run.action = "provision_all_didi"
    /\ \E precheck \in PreChecks, add \in Adds :
           LET result == ProvisionMember(precheck, add)
               after == AfterItem(run, auditLog, IF result.threw THEN "permanent" ELSE "success")
           IN  /\ run' = after.run
               /\ auditLog' = after.auditLog
               /\ member' = [kind |-> "batch", item |-> run.k, precheck |-> precheck,
                             add |-> add, addCalls |-> result.addCalls,
                             cardSent |-> FALSE, auditAt |-> 0]
    /\ UNCHANGED <<pollVars, emailVars, urgency, serviceVars, sentMessages, lastCallback>>

(***************************************************************************)
(* One provision_email action delivered twice.  Both deliveries carry the  *)
(* same value (pre_hire_id, name, email), each runs _handleProvisionEmail  *)
(* and so provisionEmailWithRetry, and neither looks at what the other     *)
(* did: the handler keeps no trace of a handled action, and                *)
(* provisionEmailWithRetry never reads the email the record holds.  The    *)
(* second delivery may arrive while the first is awaiting, or after it.    *)
(*                                                                         *)
(* The directory and the HR system are outside the program.  An email of   *)
(* an active employee is found by checkEmailExists unless the request      *)
(* fails (the catch returns false) and is refused as a duplicate by        *)
(* updateWorkEmail; an email of the recycle bin is refused as a duplicate. *)
(* For the email the record itself holds, the program decides neither      *)
(* answer: the directory may list it or not, the HR system may accept the  *)
(* same write again or refuse it as a duplicate.                           *)
(***************************************************************************)
MaxHandlings == 2

Handlings == 1..MaxHandlings

TwiceName == <<"U5F20", "U4F1F">>

\* The emails other people may hold: the head of the candidate list.
OthersEmails ==
    {<<"zhang", "wei">> \o EMAIL_DOMAIN, <<"zhang", "wei", "1">> \o EMAIL_DOMAIN}

NoHandling ==
    [frames |-> [h \in Handlings |-> NoProv], delivered |-> 0,
     preferredEmail |-> NoEmail, active |-> {}, binned |-> {},
     workEmail |-> NoEmail, committed |-> <<>>, toasts |-> <<>>]

\* The answers checkEmailExists can give for an email.
ExistsAnswers(h, email) ==
    IF email \in h.active \/ email = h.workEmail THEN BOOLEAN ELSE {FALSE}

\* The outcomes updateWorkEmail can have for an email.
UpdateOutcomes(h, email) ==
    IF email \in h.active \cup h.binned THEN {"duplicate", "other"}
    ELSE IF email = h.workEmail THEN {"success", "duplicate", "other"}
    ELSE {"success", "other"}

(***************************************************************************)
(* MatcherService.matchRule.  A string is the sequence of its pieces, a    *)
(* piece is a run of characters: "U5317U4EAC" is the city of the default   *)
(* rule, "U6B66U6C49" another city, "Wuhan" a label with a capital,        *)
(* "U52A0U73EDU7528U8F66" the overtime rides of the standard name.  A      *)
(* status or a sceneType is the number a string or a number holds: "1"     *)
(* and 1 are both 1.                                                       *)
(***************************************************************************)
MaxRules == 3

DefaultCity == "U5317U4EAC"

Overtime == "U52A0U73EDU7528U8F66"

OVERTIME_SCENE == 3

BUSINESS_SCENE == 1

\* The number of characters of a piece.
PieceLength(piece) ==
    CASE piece = "-" -> 1
      [] piece = " " -> 1
      [] piece = "U5317U4EAC" -> 2
      [] piece = "U6B66U6C49" -> 2
      [] piece = "U4E0AU6D77" -> 2
      [] piece = "U5546U52A1" -> 2
      [] piece = "U52A0U73EDU7528U8F66" -> 4
      [] piece = "U76F4U64ADU7528U8F66" -> 4
      [] OTHER -> 5

RECURSIVE StringLength(_)
StringLength(str) ==
    IF str = <<>> THEN 0 ELSE PieceLength(Head(str)) + StringLength(Tail(str))

ToLowerCase(str) ==
    [i \in DOMAIN str |-> IF str[i] = "Wuhan" THEN "wuhan" ELSE str[i]]

Trim(str) ==
    LET inked == {i \in DOMAIN str : str[i] # " "}
    IN  IF inked = {} THEN <<>>
        ELSE SubSeq(str, CHOOSE i \in inked : \A j \in inked : i <= j,
                         CHOOSE i \in inked : \A j \in inked : j <= i)

StartsWith(str, prefix) ==
    Len(prefix) <= Len(str) /\ SubSeq(str, 1, Len(prefix)) = prefix

StringIncludes(str, part) ==
    \E k \in 0..(Len(str) - Len(part)) : SubSeq(str, k + 1, k + Len(part)) = part

\* name.match(/^.+-加班用车$/)
IsStandardName(name) ==
    /\ Len(name) >= 3
    /\ name[Len(name) - 1] = "-"
    /\ name[Len(name)] = Overtime

\* null
NoRule == [id |-> 0, name |-> <<>>, status |-> 0, sceneType |-> 0]

\* The regulations the ride service may list.
Regulations ==
    {[id |-> 1, name |-> <<"U5317U4EAC", "-", "U52A0U73EDU7528U8F66">>,
      status |-> 1, sceneType |-> 3],
     [id |-> 2, name |-> <<"U6B66U6C49", "-", "U76F4U64ADU7528U8F66">>,
      status |-> 1, sceneType |-> 3],
     [id |-> 3, name |-> <<"U6B66U6C49", "-", "U52A0U73EDU7528U8F66">>,
      status |-> 1, sceneType |-> 3],
     [id |-> 4, name |-> <<"U5546U52A1", "-", "U6B66U6C49">>,
      status |-> 1, sceneType |-> 1],
     [id |-> 5, name |-> <<"U6B66U6C49", "-", "U5546U52A1">>,
      status |-> 1, sceneType |-> 4],
     [id |-> 6, name |-> <<"U6B66U6C49", "-", "U52A0U73EDU7528U8F66">>,
      status |-> 0, sceneType |-> 3],
     [id |-> 7, name |-> <<"Wuhan", "-", "U76F4U64ADU7528U8F66", "U5B9EU4E60">>,
      status |-> 1, sceneType |-> 3],
     [id |-> 8, name |-> <<"U4E0AU6D77", "-", "U5546U52A1">>,
      status |-> 1, sceneType |-> 1],
     [id |-> 9, name |-> <<"U5317U4EAC", "-", "U52A0U73EDU7528U8F66">>,
      status |-> 3, sceneType |-> 3],
     [id |-> 10, name |-> <<"U6B66U6C49", "-", "U5B9EU4E60", "-", "U52A0U73EDU7528U8F66">>,
      status |-> 1, sceneType |-> 3]}

\* The lists of regulations: up to MaxRules of them, each once, in any order.
RuleLists ==
    {list \in UNION {[1..n -> Regulations] : n \in 0..MaxRules} :
        \A i, j \in DOMAIN list : i # j => list[i] # list[j]}

\* The city of a user: none, the label of no city, and labels of cities.
UserCities ==
    {<<>>, <<"Unknown">>, <<"U6B66U6C49">>, <<" ", "U6B66U6C49", " ">>,
     <<"Wuhan">>, <<"wuhan">>, <<"U4E0AU6D77">>, <<"U5317U4EAC">>}

\* A mutant of ActiveRules: the status of a rule is not looked at.
ActiveRulesOfAnyStatus(allRules) == allRules

\* allRules.filter(r => r.status === '1' || r.status === 1)
ActiveRules(allRules) == SelectSeq(allRules, LAMBDA r : r.status = 1)

\* list.find(test), null when no element passes.
Find(list, Test(_)) ==
    LET found == SelectSeq(list, Test) IN IF found = <<>> THEN NoRule ELSE found[1]

\* list.sort((a, b) => a.name.length - b.name.length)[0] of a list that is
\* not empty: the sort is stable.
ShortestName(list) ==
    list[CHOOSE i \in DOMAIN list :
            /\ \A j \in DOMAIN list :
                   StringLength(list[i].name) <= StringLength(list[j].name)
            /\ \A j \in 1..(i - 1) :
                   StringLength(list[j].name) > StringLength(list[i].name)]

\* activeRules.find(北京 and sceneType 3) || activeRules[0]
Fallback(activeRules) ==
    LET fallback == Find(activeRules,
                         LAMBDA r : /\ StringIncludes(r.name, <<DefaultCity>>)
                                    /\ r.sceneType = OVERTIME_SCENE)
    IN  IF fallback # NoRule THEN fallback ELSE activeRules[1]

MatchRule(cityName, allRules) ==
    IF allRules = <<>> THEN NoRule
    ELSE LET activeRules == ActiveRules(allRules)
             normalizedCity == Trim(ToLowerCase(cityName))
             overtimeCandidates ==
                 SelectSeq(activeRules,
                           LAMBDA rule : /\ StartsWith(ToLowerCase(rule.name), normalizedCity)
                                         /\ rule.sceneType = OVERTIME_SCENE)
             standard == Find(overtimeCandidates, LAMBDA r : IsStandardName(r.name))
             businessMatch ==
                 Find(activeRules,
                      LAMBDA rule : /\ StringIncludes(ToLowerCase(rule.name), normalizedCity)
                                    /\ rule.sceneType = BUSINESS_SCENE)
             anyMatch ==
                 Find(activeRules,
                      LAMBDA rule : StringIncludes(ToLowerCase(rule.name), normalizedCity))
         IN  IF activeRules = <<>> THEN NoRule
             ELSE IF cityName = <<>> \/ cityName = <<"Unknown">> THEN Fallback(activeRules)
             ELSE IF overtimeCandidates # <<>>
                 THEN IF standard # NoRule THEN standard
                      ELSE ShortestName(overtimeCandidates)
             ELSE IF businessMatch # NoRule THEN businessMatch
             ELSE IF anyMatch # NoRule THEN anyMatch
             ELSE Fallback(activeRules)

NoMatch ==
    [fetched |-> FALSE, rules |-> <<>>, calls |-> 0, cityName |-> <<>>, rule |-> NoRule]

(***************************************************************************)
(* Overlapping poll cycles.  checkAndNotify awaits its roster fetch; the   *)
(* timer poll and POST /bot/check may both be suspended there.  The HR     *)
(* system answers a fetch with the roster it holds at that moment, and     *)
(* the answers reach the bot in any order.                                 *)
(***************************************************************************)
MaxChanges == 2

CycleKinds == {"timer", "manual"}

NoCycle == [pc |-> "idle", preHires |-> {}, version |-> 0]

NoCycles ==
    [roster |-> {}, version |-> 0, frames |-> [c \in CycleKinds |-> NoCycle],
     latest |-> [version |-> 0, ids |-> {}], overlapped |-> FALSE]

(***************************************************************************)
(* GET /bot/audit: getAuditLog(count) is this.auditLog.slice(-count).      *)
(* slice(start) with a negative start begins at length + start, and not    *)
(* before the head; -0 is 0, so slice(-0) begins at the head.              *)
(***************************************************************************)
Slice(list, start) ==
    LET from == IF start < 0 THEN (IF Len(list) + start < 0 THEN 0 ELSE Len(list) + start)
                ELSE (IF start > Len(list) THEN Len(list) ELSE start)
    IN  SubSeq(list, from + 1, Len(list))

GetAuditLog(log, count) == Slice(log, 0 - count)

\* parseInt(req.query.count || '50', 10) for the counts a client asks for.
AuditCounts == {0, 1, 2, 50, AUDIT_LOG_CAP - 1, AUDIT_LOG_CAP, AUDIT_LOG_CAP + 1}

NoAuditReply == [seq |-> 0, count |-> 0, total |-> 0, first |-> 0, last |-> 0]

\* The state after construction, but for the two bounded stores.
InitBot ==
    /\ now = 20
    /\ didiConfigured \in BOOLEAN
    /\ lastKnownIds = {}
    /\ initialized = FALSE
    /\ lastKnownCompletedIds = {}
    /\ completedInitialized = FALSE
    /\ lastCheck = NoCheck
    /\ pushQuery = [asked |-> FALSE, city |-> NoCity, hasNew |-> FALSE, at |-> 0, due |-> FALSE]
    /\ prov = NoProv
    /\ batch = NoBatch
    /\ run = NoRun
    /\ lastCallback = NoCallback
    /\ urgency = NoUrgency
    /\ gate = NoDidi
    /\ fetch = NoFetch
    /\ req = NoReq
    /\ timers = NoTimers
    /\ member = NoMember
    /\ handling = NoHandling
    /\ matcher = NoMatch
    /\ cycles = NoCycles
    /\ auditReply = NoAuditReply

Init ==
    /\ InitBot
    /\ sentMessages = <<>>
    /\ auditLog = <<>>

Next == TimerCheck \/ ManualCheck \/ AdvanceDay

Spec == Init /\ [][Next]_vars

NextCadence == EvalShouldPush \/ AdvanceHour

SpecCadence == Init /\ [][NextCadence]_vars

NextEmail == ProvisionEmailWithRetry \/ CheckEmailExists \/ UpdateWorkEmail \/ ProvisionReturn

SpecEmail == Init /\ [][NextEmail]_vars

NextBatch == BatchGenerateEmailsLocal \/ BatchMapUser \/ BatchReturn

SpecBatch == Init /\ [][NextBatch]_vars

NextRun == HandleProvisionAll \/ ProvisionSettles \/ ResultCardSettles \/ RunEnds

SpecRun == Init /\ [][NextRun]_vars

NextCallback ==
    InvalidCallback \/ HandleProvisionEmail \/ HandleProvisionDidi \/ HandleRefresh

SpecCallback == Init /\ [][NextCallback]_vars

\* Polls, refreshes and daily summaries of a bot without the ride service.
NextRefresh == TimerCheckTracked \/ HandleRefresh \/ SendDailySummary

\* A bot whose ride service is not configured.
InitRefresh == Init /\ ~didiConfigured

SpecRefresh == InitRefresh /\ [][NextRefresh]_vars

\* Callbacks on a bot whose audit log is empty, or nearly full or full.
InitAudit ==
    /\ InitBot
    /\ sentMessages = <<>>
    /\ auditLog \in {PastLog(n) : n \in {0} \cup ((AUDIT_LOG_CAP - 2)..AUDIT_LOG_CAP)}

SpecAudit == InitAudit /\ [][HandleProvisionEmailHourly]_vars

\* Refreshes on a bot that tracks no message yet, or 48 to 50 messages.
InitTracked ==
    /\ InitBot
    /\ auditLog = <<>>
    /\ sentMessages \in {PastTracked(n) :
                             n \in {0} \cup ((SENT_MESSAGES_CAP - 2)..SENT_MESSAGES_CAP)}

SpecTracked == InitTracked /\ [][HandleRefreshHourly]_vars

\* Overlapping callers of the ride-service client.
NextThrottle ==
    \/ \E c \in Callers : Throttle(c) \/ ThrottleWakes(c) \/ RequestSettles(c)
    \/ Elapse

SpecThrottle == Init /\ [][NextThrottle]_vars

NextFetch == GetEnrichedPreHires \/ PageSettles \/ WaveSettled \/ FetchReturns

SpecFetch == Init /\ [][NextFetch]_vars

NextRequest == Request \/ AttemptSucceeds \/ AttemptFails \/ BackoffEnds \/ RequestEnds

SpecRequest == Init /\ [][NextRequest]_vars

\* POST /bot/config with a chat id: the bot is started when it holds no
\* poll timer; the chat id itself is read from the environment at each send.
PostBotConfig ==
    IF timers.timer = 0 THEN Start ELSE UNCHANGED vars

NextLifecycle == PostBotConfig \/ Start \/ Stop \/ TimerFires

SpecLifecycle == Init /\ [][NextLifecycle]_vars

\* Single and batch ride-service provisioning.
NextMember ==
    \/ HandleProvisionDidiMember
    \/ HandleProvisionAll
    \/ DidiMemberSettles
    \/ ResultCardSettles
    \/ RunEnds

\* A bot whose ride service is configured.
InitMember == Init /\ didiConfigured

SpecMember == InitMember /\ [][NextMember]_vars

\* The groupings of rosters by urgency.
NextTiers == BuildEmailCard \/ GroupDailySummary

SpecTiers == Init /\ [][NextTiers]_vars

NextOutage == Next \/ CheckDuringOutage

SpecOutage == Init /\ [][NextOutage]_vars

(***************************************************************************)
(* Change detection and notification: the claims.                          *)
(***************************************************************************)
CardCities(cards) == {cards[i].city : i \in DOMAIN cards}

CardHires(cards) == UNION {cards[i].hires : i \in DOMAIN cards}

NonInterns(S) == {h \in S : ~IsIntern(h)}

\* C1: on the first poll since process start, when it is not forced and the
\* roster holds a record, no record is classified as new, no notification is
\* sent for the category, and the category's initialized flag is true
\* afterwards.
C1_FirstPollReportsNothingNew ==
    [][(TimerCheck /\ lastCheck.kind = "none") =>
           /\ lastCheck'.preHires # {} =>
                  /\ lastCheck'.newHires = {}
                  /\ lastCheck'.emailCards = <<>>
                  /\ initialized'
           /\ NonInterns(lastCheck'.completedHires) # {} =>
                  /\ lastCheck'.newCompleted = {}
                  /\ lastCheck'.didiCards = <<>>
                  /\ completedInitialized']_vars

\* C2: at a non-forced poll that follows a non-forced poll, the preboarding
\* records classified as new are exactly those in this poll's roster and not
\* in the previous poll's roster.
C2_NewIsRosterDifference ==
    [][(TimerCheck /\ lastCheck.kind = "check" /\ ~lastCheck.force) =>
           lastCheck'.newHires = lastCheck'.preHires \ lastCheck.preHires]_vars

\* C3: after every poll cycle the KnownSet of each polled category equals the
\* ids of the roster that poll fetched (for the ride-service category, of its
\* non-intern records) and the category is initialized, also when the roster
\* is empty.
C3_KnownSetIsLastRoster ==
    lastCheck.kind = "check" =>
        /\ lastKnownIds = lastCheck.preHires
        /\ initialized
        /\ didiConfigured =>
               /\ lastKnownCompletedIds = NonInterns(lastCheck.completedHires)
               /\ completedInitialized

\* C4: in a non-forced poll made after the category is initialized, every
\* realtime city that has a record classified as new in that poll is sent a
\* notification in that poll.
C4_RealtimeCityWithNewIsNotified ==
    [][(TimerCheck /\ initialized) =>
           \A h \in lastCheck'.newHires :
               PushRuleOf(CityOf(h)).type = "realtime"
                   => CityOf(h) \in CardCities(lastCheck'.emailCards)]_vars

\* C5: the cadence decision: a realtime rule (Wuhan) is due iff there are new
\* records; a scheduled rule (Beijing) is due iff the weekday on the Shanghai
\* calendar is Monday or Wednesday, whatever hasNew is; a city with no listed
\* rule is decided as scheduled on Monday and Wednesday.
C5_CadenceDecision ==
    pushQuery.asked =>
        LET shanghaiWeekday == ((pushQuery.at + 8) \div 24) % 7
        IN  pushQuery.due =
                IF pushQuery.city = "Wuhan" THEN pushQuery.hasNew
                ELSE shanghaiWeekday \in {1, 3}

\* C5 witness: an unlisted city with nothing new is due on a Monday (Shanghai
\* time) that is still Sunday on the UTC clock.
C5_Witness ==
    /\ pushQuery.asked
    /\ pushQuery.city = "Shanghai"
    /\ ~pushQuery.hasNew
    /\ pushQuery.at \div 24 = 0
    /\ pushQuery.due

\* The cards of a forced check over the records S: one per city of S, each
\* carrying all the records of S in that city.
OneCardPerCity(cards, S) ==
    /\ CardCities(cards) = {CityOf(h) : h \in S}
    /\ \A i, j \in DOMAIN cards : cards[i].city = cards[j].city => i = j
    /\ \A i \in DOMAIN cards : cards[i].hires = {h \in S : CityOf(h) = cards[i].city}

\* C6: a forced check whose sends are accepted sends exactly one notification
\* for every city that has a record in the current roster, on any weekday and
\* whether or not any record is new, and each carries all of that city's
\* roster records (for the ride-service category: the non-intern records).
C6_ForcedCheckSendsEveryGroup ==
    (lastCheck.kind = "check" /\ lastCheck.force /\ ~lastCheck.threw) =>
        /\ OneCardPerCity(lastCheck.emailCards, lastCheck.preHires)
        /\ OneCardPerCity(lastCheck.didiCards, NonInterns(lastCheck.completedHires))

\* C6 witness: a forced check on a day that is not a push day has sent the
\* card of the scheduled city Beijing and a ride-service card, all records of
\* the roster being known from the poll before.
C6_Witness ==
    /\ lastCheck.kind = "check"
    /\ lastCheck.force
    /\ ChinaDay(now) \notin {1, 3}
    /\ "Beijing" \in CardCities(lastCheck.emailCards)
    /\ Len(lastCheck.emailCards) = 2
    /\ lastCheck.didiCards # <<>>

\* C7: a non-forced poll never puts in a notification a record that was
\* already in the roster of the poll before; so a record that stays on the
\* roster from its first appearance onwards is notified by at most one poll,
\* the one of its first appearance.
C7_StayingRecordNotNotifiedAgain ==
    [][(lastCheck'.seq # lastCheck.seq /\ ~lastCheck'.force) =>
           /\ \A h \in lastCheck.preHires \cap lastCheck'.preHires :
                  h \notin CardHires(lastCheck'.emailCards)
           /\ \A h \in lastCheck.completedHires \cap lastCheck'.completedHires :
                  h \notin CardHires(lastCheck'.didiCards)]_vars

\* C7 witness: a non-forced poll has sent a card for a new record while a
\* record that stayed on the roster is in no card.
C7_Witness ==
    /\ lastCheck.kind = "check"
    /\ ~lastCheck.force
    /\ lastCheck.emailCards # <<>>
    /\ \E h \in lastCheck.preHires :
           h \notin lastCheck.newHires /\ h \notin CardHires(lastCheck.emailCards)

(***************************************************************************)
(* Email allocation: the claims.                                           *)
(***************************************************************************)
\* The probe answered "taken" for every candidate it asked about but the last.
TakenThenFree(probes) ==
    /\ probes # <<>>
    /\ \A j \in 1..(Len(probes) - 1) : probes[j]
    /\ ~probes[Len(probes)]

\* C8: without a preferred email, when the probe reports the base and the
\* first N suffix candidates as taken and the next one as free, and the commit
\* of that candidate succeeds, the email returned is the base with the
\* (N+1)-th suffix of the sequence, and the plain base when nothing is taken.
C8_ReturnsFirstFreeCandidate ==
    (/\ prov.pc = "done"
     /\ prov.result.status = "success"
     /\ prov.preferredEmail = NoEmail
     /\ TakenThenFree(prov.probes)
     /\ Len(prov.commits) = 1) =>
        LET base == generatePinyin(prov.name)
            taken == Len(prov.probes) - 1
        IN  prov.result.email =
                IF taken = 0 THEN base \o EMAIL_DOMAIN
                ELSE base \o DigitsOf(VALID_SUFFIXES[taken]) \o EMAIL_DOMAIN

\* C8 witness: the base and the first 55 suffixes are taken, the last suffix,
\* 99, is free and is the email returned.
C8_Witness ==
    /\ prov.pc = "done"
    /\ prov.result.status = "success"
    /\ prov.preferredEmail = NoEmail
    /\ Len(prov.probes) = Len(VALID_SUFFIXES) + 1
    /\ Len(prov.commits) = 1
    /\ prov.result.email = <<"zhang", "wei", "9", "9", "@guanghe.tv">>

\* C9: the commits of one call are made on consecutive candidates, in list
\* order, from the candidate the probe phase chose; only a duplicate conflict
\* moves on to the next candidate, no candidate is committed twice; any other
\* failure ends the call with that failure; a duplicate conflict on the last
\* candidate ends it with the exhaustion error.
C9_CommitsWalkTheList ==
    (prov.pc \in {"commit", "done"} /\ prov.startIndex > 0) =>
        LET c == prov.commits
            s == prov.startIndex
            n == Len(prov.commits)
        IN  /\ s = Len(prov.probes)
            /\ ~prov.probes[s]
            /\ \A k \in DOMAIN c : c[k].email = prov.candidates[s + k - 1]
            /\ \A k, l \in DOMAIN c : c[k].email = c[l].email => k = l
            /\ \A k \in 1..(n - 1) : c[k].outcome = "duplicate"
            /\ prov.pc = "commit" =>
                   /\ s + n <= Len(prov.candidates)
                   /\ n > 0 => c[n].outcome = "duplicate"
            /\ prov.pc = "done" =>
                   /\ n > 0
                   /\ c[n].outcome = "other" => prov.result = Failure("commitFailed")
                   /\ c[n].outcome = "duplicate" =>
                          /\ s + n - 1 = Len(prov.candidates)
                          /\ prov.result = Failure("allCandidatesUsedUp")
                   /\ c[n].outcome = "success" =>
                          /\ prov.result.status = "success"
                          /\ prov.result.email = c[n].email

\* C9 witness: a call that started past the head of the list and ran into a
\* duplicate conflict on every candidate from there to the last one.
C9_Witness ==
    /\ prov.pc = "done"
    /\ prov.startIndex > 1
    /\ Len(prov.commits) >= 2
    /\ prov.startIndex + Len(prov.commits) - 1 = Len(prov.candidates)
    /\ prov.result = Failure("allCandidatesUsedUp")

\* Every candidate of the list has been probed and reported taken.
AllProbedTaken ==
    /\ prov.candidates # <<>>
    /\ Len(prov.probes) = Len(prov.candidates)
    /\ \A j \in DOMAIN prov.probes : prov.probes[j]

\* C10: when the probe reports every candidate of the list as taken, the call
\* fails with the exhaustion error and no commit is attempted.
C10_AllTakenNoCommit ==
    AllProbedTaken =>
        /\ prov.pc = "done"
        /\ prov.result = Failure("allTakenByActive")
        /\ prov.commits = <<>>

\* C10 witness: the list headed by a preferred email, 58 candidates, all taken.
C10_Witness ==
    /\ AllProbedTaken
    /\ prov.preferredEmail = <<"it">> \o EMAIL_DOMAIN
    /\ Len(prov.probes) = Len(VALID_SUFFIXES) + 2

(***************************************************************************)
(* Suggested emails of a batch: the claims.                                *)
(***************************************************************************)
\* How many of the first j users of the batch have the slug of user j.
RankInBase(users, j) ==
    Cardinality({i \in 1..j : generatePinyin(users[i]) = generatePinyin(users[j])})

\* C11: in one batchGenerateEmailsLocal call no two records with a non-empty
\* slug receive the same suggested email, and the k-th record of a base slug
\* (k >= 2) receives the base with the (k-1)-th suffix of the sequence when
\* no other record of the batch holds that candidate.
C11_BatchEmailsDistinct ==
    batch.pc = "done" =>
        /\ \A i, j \in DOMAIN batch.out :
               (/\ i < j
                /\ batch.out[i].email_base_pinyin # <<>>
                /\ batch.out[j].email_base_pinyin # <<>>) =>
                   batch.out[i].suggested_email # batch.out[j].suggested_email
        /\ \A j \in DOMAIN batch.out :
               LET base == batch.out[j].email_base_pinyin
                   k == RankInBase(batch.users, j)
               IN  (/\ base # <<>>
                    /\ k >= 2
                    /\ k - 1 <= Len(VALID_SUFFIXES)
                    /\ \A i \in DOMAIN batch.out \ {j} :
                           batch.out[i].suggested_email # SuffixEmail(base, k - 1)) =>
                       batch.out[j].suggested_email = SuffixEmail(base, k - 1)

\* C12: the suffix sequence has no value with a decimal digit 2 or 4, is
\* strictly increasing, begins with 1, 3, 5, 6, 7, 8, 9 and continues with
\* exactly the two-digit numbers whose digits are both of these seven: 56
\* values in all; the suffixes a batch hands out are values of it.
C12_SuffixSequence ==
    LET allowed == {"1", "3", "5", "6", "7", "8", "9"}
        digitsAllowed(n) == \A d \in DOMAIN DigitsOf(n) : DigitsOf(n)[d] \in allowed
    IN  /\ Len(VALID_SUFFIXES) = 56
        /\ \A k \in DOMAIN VALID_SUFFIXES :
               \A d \in DOMAIN DigitsOf(VALID_SUFFIXES[k]) :
                   DigitsOf(VALID_SUFFIXES[k])[d] \notin {"2", "4"}
        /\ \A k \in 1..(Len(VALID_SUFFIXES) - 1) : VALID_SUFFIXES[k] < VALID_SUFFIXES[k + 1]
        /\ SubSeq(VALID_SUFFIXES, 1, 7) = <<1, 3, 5, 6, 7, 8, 9>>
        /\ {VALID_SUFFIXES[k] : k \in 8..Len(VALID_SUFFIXES)} =
               {n \in 10..99 : digitsAllowed(n)}
        /\ \A j \in DOMAIN batch.out :
               batch.out[j].email_suffix # NoSuffix =>
                   /\ digitsAllowed(batch.out[j].email_suffix)
                   /\ batch.out[j].email_suffix < 100

\* C12 witness: a batch has walked the whole sequence, its last record has
\* the suffix 99.
C12_Witness ==
    /\ batch.pc = "done"
    /\ batch.out[Len(batch.out)].email_suffix = 99
    /\ Len(batch.out) = Len(VALID_SUFFIXES) + 1

(***************************************************************************)
(* Batch-provision runs: the claims.                                       *)
(***************************************************************************)
RunOver == run.pc \in {"card", "done"}

\* The positions of an event in the events of the run.
EventAt(e) == {p \in DOMAIN run.events : run.events[p] = e}

\* C13: a batch-provision run over n >= 1 items appends to the audit log n item
\* entries, one per item outcome, and then one aggregate entry: the log grows
\* by n + 1 entries.
C13_RunAppendsItemEntriesAndAggregate ==
    RunOver =>
        LET n == Len(run.users)
            first == Len(run.logAtStart)
        IN  /\ Len(auditLog) = first + n + 1
            /\ SubSeq(auditLog, 1, first) = run.logAtStart
            /\ auditLog[Len(auditLog)].action = run.action
            /\ \A p \in (first + 1)..(Len(auditLog) - 1) : auditLog[p].action # run.action

\* C14: whichever items of a batch-provision run fail, every item is
\* processed, the result list has one entry per item, the k-th for the k-th
\* input item, and the aggregate reports successful + failed = total = n.
C14_RunProcessesEveryItem ==
    RunOver =>
        LET n == Len(run.users)
            aggregate == auditLog[Len(auditLog)].data
        IN  /\ Len(run.results) = n
            /\ \A k \in 1..n :
                   /\ run.results[k].name = run.users[k]
                   /\ EventAt(Call(k)) # {}
                   /\ EventAt(Outcome(k)) # {}
            /\ aggregate.total = n
            /\ aggregate.successful + aggregate.failed = n
            /\ aggregate.successful =
                   Cardinality({k \in 1..n : run.results[k].success})

\* C14 witness: a run over two items is over, its first item failed and the
\* second succeeded.
C14_Witness ==
    /\ RunOver
    /\ Len(run.users) = 2
    /\ ~run.results[1].success
    /\ run.results[2].success
    /\ auditLog[Len(auditLog)].data = [total |-> 2, successful |-> 1, failed |-> 1]

\* C15: the batch callback returns its acknowledgment before the outcome of
\* any item is recorded, and the run processes its items one at a time in
\* input order: the provisioning call of item k + 1 is issued only after the
\* outcome of item k has been recorded.
C15_AckFirstThenOneAtATime ==
    run.pc # "idle" =>
        /\ lastCallback.toast = "info"
        /\ \E a \in EventAt([e |-> "ack"]) :
               \A k \in DOMAIN run.users : \A p \in EventAt(Outcome(k)) : a < p
        /\ \A k \in DOMAIN run.users :
               /\ Cardinality(EventAt(Call(k))) <= 1
               /\ Cardinality(EventAt(Outcome(k))) <= 1
               /\ \A c \in EventAt(Call(k)) :
                      /\ \A o \in EventAt(Outcome(k)) : c < o
                      /\ \A j \in 1..(k - 1) : \E o \in EventAt(Outcome(j)) : o < c

\* C15 witness: the acknowledgment has been returned before the first
\* outcome, and the call of the second item follows the first outcome.
C15_Witness ==
    /\ run.pc = "item"
    /\ Len(run.users) = 2
    /\ run.k = 2
    /\ EventAt([e |-> "ack"]) = {2}
    /\ EventAt(Outcome(1)) = {3}
    /\ EventAt(Call(2)) = {4}

(***************************************************************************)
(* Card callbacks and the daily summary: the claims.                       *)
(***************************************************************************)
\* The step is a callback or a daily summary.
CallbackStep == lastCallback'.seq # lastCallback.seq

\* C16: a single-provision callback, for an email or a ride account, that
\* reaches the provisioning collaborator appends exactly one audit entry, and
\* the success flag of the entry is true iff the provisioning succeeded,
\* whatever the outcome of sending the confirmation card.
C16_SingleProvisionOneAuditEntry ==
    [][(/\ CallbackStep
        /\ lastCallback'.kind \in {"provision_email", "provision_didi"}
        /\ lastCallback'.reached) =>
           /\ Len(auditLog') = Len(auditLog) + 1
           /\ SubSeq(auditLog', 1, Len(auditLog)) = auditLog
           /\ auditLog'[Len(auditLog')].action = lastCallback'.kind
           /\ auditLog'[Len(auditLog')].data.success = lastCallback'.provisioned]_vars

\* C17: a callback whose value does not parse, has no action or has an
\* unknown action returns an informational toast and changes nothing: no
\* provisioning call, no notification, no audit entry, and the KnownSets and
\* the tracked messages are as before.
C17_InvalidCallbackChangesNothing ==
    [][(/\ CallbackStep
        /\ lastCallback'.payload \in {"notJSON", "null", "noAction", "unknownAction"}) =>
           /\ lastCallback'.toast = "info"
           /\ ~lastCallback'.reached
           /\ lastCallback'.cardsSent = 0
           /\ UNCHANGED <<auditLog, sentMessages, botVars, run, emailVars, urgency, clientVars>>]_vars

\* C17 witness: an unknown action has been answered while a message is
\* tracked and the audit log has an entry.
C17_Witness ==
    /\ lastCallback.payload = "unknownAction"
    /\ lastCallback.kind = "unknown"
    /\ sentMessages # <<>>
    /\ auditLog # <<>>

\* C18: neither a refresh nor a daily summary changes the KnownSet or the
\* initialized flag of a category, so the KnownSet the next poll classifies
\* against is still the roster of the poll before.
C18_RefreshAndSummaryKeepKnownSet ==
    [][(CallbackStep /\ lastCallback'.kind \in {"refresh", "dailySummary"}) =>
           /\ UNCHANGED <<lastKnownIds, initialized, lastKnownCompletedIds,
                          completedInitialized>>
           /\ lastCheck'.preHires # {} => lastKnownIds' = lastCheck'.preHires]_vars

\* C18 witness: after a poll, a refresh has fetched, sent and tracked a roster
\* that is not the KnownSet.
C18_Witness ==
    /\ lastCallback.kind = "refresh"
    /\ lastCallback.cardsSent = 1
    /\ initialized
    /\ lastKnownIds # {}
    /\ sentMessages # <<>>
    /\ sentMessages[Len(sentMessages)] # lastKnownIds

(***************************************************************************)
(* Urgency tiers: the claims.                                              *)
(***************************************************************************)
\* C19: in the email card each date group is labelled by the number of days d
\* from today to its date: d <= 0 the most urgent tier (red), d = 1 the
\* tomorrow tier (orange), 2 <= d <= 7 the within-a-week tier (yellow), and
\* d > 7 the lowest tier (green).
C19_CardTiersByDays ==
    urgency.kind = "emailCard" =>
        \A date \in DOMAIN urgency.labels \ {NoDate} :
            LET d == date - urgency.today
            IN  urgency.labels[date] =
                    IF d <= 0 THEN "red"
                    ELSE IF d = 1 THEN "orange"
                    ELSE IF d <= WEEK_DAYS THEN "yellow"
                    ELSE "green"

GroupsOf(h) == {g \in DOMAIN urgency.groups : h \in urgency.groups[g]}

\* C20: the daily summary places every record of the roster in exactly one
\* of the four groups, and the colour of that group is the colour the email
\* card gives to the record's date.
C20_SummaryTiersAsCard ==
    urgency.kind = "dailySummary" =>
        \A h \in DOMAIN urgency.roster :
            /\ Cardinality(GroupsOf(h)) = 1
            /\ \A g \in GroupsOf(h) :
                   SummaryColor[g] = DateLabel(urgency.roster[h], urgency.today)

(***************************************************************************)
(* The bounded stores: the claims.                                         *)
(***************************************************************************)
\* The entries a single provision appends, oldest first, read off its reply:
\* a failed provisioning one failure entry, a success one success entry, and
\* a success whose confirmation card failed a success and a failure entry.
AppendedBy(reply, at) ==
    LET entry(ok) == [timestamp |-> at, action |-> reply.kind, data |-> [success |-> ok]]
    IN  IF ~reply.provisioned THEN <<entry(FALSE)>>
        ELSE IF reply.cardsSent = 1 THEN <<entry(TRUE)>>
        ELSE <<entry(TRUE), entry(FALSE)>>

\* C21: the audit log never holds more than 200 entries, and after every
\* append it is exactly the most recent min(n, 200) of the entries appended
\* so far, in append order and unchanged: the oldest entries are dropped
\* first and no entry is modified or reordered.
C21_AuditLogIsLastEntries ==
    [][CallbackStep =>
          LET all == auditLog \o AppendedBy(lastCallback', now)
              kept == IF Len(all) <= 200 THEN Len(all) ELSE 200
          IN  /\ Len(auditLog') = kept
              /\ \A j \in 1..kept : auditLog'[j] = all[Len(all) - kept + j]]_vars

\* Two callbacks on a full log, each appending one entry, dropped its two
\* oldest entries.
C21_Witness ==
    /\ now = 22
    /\ Len(auditLog) = AUDIT_LOG_CAP
    /\ auditLog[AUDIT_LOG_CAP].timestamp = 21
    /\ auditLog[AUDIT_LOG_CAP - 1].timestamp = 20
    /\ auditLog[AUDIT_LOG_CAP - 2].timestamp = 19
    /\ auditLog[1].timestamp = (22 + HoursPerWeek - AUDIT_LOG_CAP) % HoursPerWeek

\* C22: the map of sent messages never holds more than 50 entries; a tracked
\* send that would exceed that evicts the entry inserted earliest; a send
\* that yields no message id (or no send at all) adds no entry.
C22_SentMessagesBoundedOldestEvicted ==
    [][\A fetched \in Fetches, cardSent \in BOOLEAN, withId \in BOOLEAN :
          RefreshHourly(fetched, cardSent, withId) =>
              LET tracks == fetched.ok /\ fetched.hires # {} /\ cardSent /\ withId
              IN  /\ Len(sentMessages') <= 50
                  /\ ~tracks => sentMessages' = sentMessages
                  /\ tracks =>
                         sentMessages' = IF Len(sentMessages) < 50
                                            THEN Append(sentMessages, fetched.hires)
                                         ELSE Append(Tail(sentMessages), fetched.hires)]_vars

\* Two tracked refreshes on a full map evicted its two oldest entries.
C22_Witness ==
    /\ now = 22
    /\ Len(sentMessages) = SENT_MESSAGES_CAP
    /\ sentMessages[1] = PastTracked(SENT_MESSAGES_CAP)[3]
    /\ sentMessages[SENT_MESSAGES_CAP - 2] = PastTracked(SENT_MESSAGES_CAP)[SENT_MESSAGES_CAP]
    /\ sentMessages[SENT_MESSAGES_CAP - 1] = {1}
    /\ sentMessages[SENT_MESSAGES_CAP] = {1}

(***************************************************************************)
(* The clients of the two services: the claims.                            *)
(***************************************************************************)
\* C23: whatever the interleaving of the callers of the ride-service client,
\* any two requests leave the throttle gate at least the inter-request
\* interval of 160 ms apart.
C23_RequestsLeaveGateSpaced ==
    \A i \in DOMAIN gate.left : \A j \in DOMAIN gate.left :
        i < j => gate.left[j] - gate.left[i] >= 160

\* The pages requested so far that hold the id.
PagesOf(id) ==
    {p \in DOMAIN fetch.pages : \E k \in DOMAIN fetch.pages[p] : fetch.pages[p][k] = id}

\* C24: within one getEnrichedPreHires call every fetched id is requested in
\* exactly one page of at most 10 ids, at most 3 page requests are in flight
\* at any time, and the requests of a wave are issued only after every
\* request of the wave before has settled.
C24_PagesAndWaves ==
    /\ Cardinality(fetch.inFlight) <= 3
    /\ \A p \in DOMAIN fetch.pages : Len(fetch.pages[p]) <= 10
    /\ \A id \in 1..Len(fetch.ids) : Cardinality(PagesOf(id)) <= 1
    /\ fetch.pc = "done" => \A id \in 1..Len(fetch.ids) : Cardinality(PagesOf(id)) = 1
    /\ \A p \in fetch.inFlight :
           \A q \in DOMAIN fetch.pages : (q - 1) \div 3 <= (p - 1) \div 3

\* The second wave is in flight: the first three pages have settled, the
\* fourth page holds the 31st id.
C24_Witness ==
    /\ fetch.pc = "wave"
    /\ Len(fetch.ids) = 31
    /\ fetch.inFlight = {4}
    /\ Len(fetch.pages) = 4
    /\ fetch.pages[4] = <<31>>

\* A failure the claim calls retryable: no HTTP status, 429, 500 and above,
\* or the timeout.
ClaimedRetryable(f) == f.status = 0 \/ f.status = 429 \/ f.status >= 500 \/ f.aborted

\* C25: request makes at most 3 attempts; it retries only after a retryable
\* failure and waits 1000 ms before the second and 2000 ms before the third
\* attempt; a failure that is not retryable is thrown by the attempt it
\* fails; and when the third attempt fails, its failure is thrown.
C25_RequestRetries ==
    /\ Len(req.tokens) <= 3
    /\ Len(req.delays) <= 2
    /\ \A k \in DOMAIN req.delays :
           /\ ClaimedRetryable(req.failures[k])
           /\ req.delays[k] = IF k = 1 THEN 1000 ELSE 2000
    /\ \A k \in DOMAIN req.failures :
           ~ClaimedRetryable(req.failures[k]) =>
               /\ k = Len(req.failures)
               /\ req.pc = "done" /\ req.result = "thrown" /\ req.thrown = req.failures[k]
    /\ Len(req.failures) = 3 =>
           req.pc = "done" /\ req.result = "thrown" /\ req.thrown = req.failures[3]
    /\ req.pc = "attempt" => Len(req.tokens) = Len(req.failures) + 1

\* The third attempt has failed after two backoffs.
C25_Witness ==
    /\ req.pc = "done"
    /\ req.result = "thrown"
    /\ Len(req.failures) = 3
    /\ req.delays = <<1000, 2000>>
    /\ req.thrown.status = 503

\* C26: whenever an attempt fails with a token-expired code (99991663 or
\* 99991664) and fewer than 3 attempts have been made, the cached token is
\* discarded and, a new token being obtained, the request is retried with
\* it, whatever the HTTP status of the failure.
C26_ExpiredTokenIsRefreshed ==
    (req.pc = "done" /\ ~req.refreshFailed) =>
        \A k \in DOMAIN req.failures :
            (req.failures[k].code \in {99991663, 99991664} /\ k < 3) =>
                /\ Len(req.tokens) > k
                /\ req.tokens[k + 1] # req.tokens[k]

(***************************************************************************)
(* The lifecycle: the claims.                                              *)
(***************************************************************************)
\* C27: after stop has been called, no timer starts a poll-and-notify cycle
\* or a daily summary until start is called again.
C27_NoTimerFiresAfterStop ==
    ~timers.last.stopped

(***************************************************************************)
(* Ride-service provisioning: the claims.                                  *)
(***************************************************************************)
\* The collaborator said that the person exists, in the pre-check or in the
\* add call.
ReportedExisting ==
    member.precheck = "exists" \/ (member.addCalls = 1 /\ member.add = "exists")

\* C28: when the ride service reports that the person exists, from the
\* pre-check or from the add call, the dispatcher treats the item as a
\* success: a single provision adds a success entry to the audit log (and
\* answers with a success once its confirmation is sent), a batch run adds a
\* success row; and at most the one add call is made, none after a positive
\* pre-check.
C28_ExistingIsSuccess ==
    ReportedExisting =>
        /\ member.addCalls = IF member.precheck = "exists" THEN 0 ELSE 1
        /\ (member.kind = "single" /\ lastCallback.kind = "provision_didi") =>
               /\ Len(auditLog) >= member.auditAt
               /\ auditLog[member.auditAt].action = "provision_didi"
               /\ auditLog[member.auditAt].data.success
               /\ lastCallback.provisioned
               /\ member.cardSent =>
                      Len(auditLog) = member.auditAt /\ lastCallback.toast = "success"
        /\ (member.kind = "batch" /\ run.pc # "idle" /\ Len(run.results) = member.item) =>
               run.results[member.item].success

\* The add call of a single provision said that the person exists.
C28_Witness ==
    /\ member.kind = "single"
    /\ member.precheck = "absent"
    /\ member.add = "exists"
    /\ member.addCalls = 1
    /\ member.cardSent
    /\ lastCallback.toast = "success"

\* A delivery of the action reaches _handleProvisionEmail, which runs
\* provisionEmailWithRetry up to its first await.
HandleProvisionEmailDelivery ==
    /\ handling.delivered < MaxHandlings
    /\ \E preferredEmail \in PreferredEmails, active \in SUBSET OthersEmails,
          binned \in SUBSET OthersEmails :
           /\ handling.delivered > 0 =>
                  /\ preferredEmail = handling.preferredEmail
                  /\ active = handling.active
                  /\ binned = handling.binned
           /\ active \cap binned = {}
           /\ handling' =
                  [handling EXCEPT
                      !.delivered = @ + 1,
                      !.preferredEmail = preferredEmail,
                      !.active = active,
                      !.binned = binned,
                      !.frames[handling.delivered + 1] =
                          StartProvision(TwiceName, preferredEmail)]
    /\ UNCHANGED <<botAll, gate, fetch, req, timers, member, matcher, cycles, auditReply>>

DeliveryCheckEmailExists(h) ==
    /\ handling.frames[h].pc = "probe"
    /\ LET p == handling.frames[h]
       IN  \E exists \in ExistsAnswers(handling, p.candidates[p.i]) :
               handling' = [handling EXCEPT !.frames[h] = AfterProbe(p, exists)]
    /\ UNCHANGED <<botAll, gate, fetch, req, timers, member, matcher, cycles, auditReply>>

DeliveryUpdateWorkEmail(h) ==
    /\ handling.frames[h].pc = "commit"
    /\ LET p == handling.frames[h]
           email == p.candidates[p.i]
       IN  \E outcome \in UpdateOutcomes(handling, email) :
               handling' =
                   [handling EXCEPT
                       !.frames[h] = AfterCommit(p, outcome),
                       !.workEmail = IF outcome = "success" THEN email ELSE @,
                       !.committed =
                           IF outcome = "success"
                              THEN Append(@, [handling |-> h, email |-> email])
                           ELSE @]
    /\ UNCHANGED <<botAll, gate, fetch, req, timers, member, matcher, cycles, auditReply>>

\* provisionEmailWithRetry returns or throws, the handler answers its toast.
DeliveryReturns(h) ==
    /\ handling.frames[h].pc = "done"
    /\ handling' =
           [handling EXCEPT
               !.frames[h].pc = "returned",
               !.toasts = Append(@, [handling |-> h,
                                     toast |-> handling.frames[h].result.status,
                                     email |-> handling.frames[h].result.email])]
    /\ UNCHANGED <<botAll, gate, fetch, req, timers, member, matcher, cycles, auditReply>>

NextTwice ==
    \/ HandleProvisionEmailDelivery
    \/ \E h \in Handlings : DeliveryCheckEmailExists(h)
    \/ \E h \in Handlings : DeliveryUpdateWorkEmail(h)
    \/ \E h \in Handlings : DeliveryReturns(h)

SpecTwice == Init /\ [][NextTwice]_vars

\* C29: handling the same provision_email action twice for one record is
\* idempotent: whether the second handling follows the first or overlaps
\* it, the second commits no email other than the one the first committed,
\* and once both have returned the record holds the email of the first.
C29_SecondHandlingIsIdempotent ==
    /\ \A j, k \in DOMAIN handling.committed :
           handling.committed[j].handling = 1 /\ handling.committed[k].handling = 2
               => handling.committed[k].email = handling.committed[j].email
    /\ (\A h \in Handlings : handling.frames[h].pc = "returned")
           => \A j \in DOMAIN handling.committed :
                  handling.committed[j].handling = 1
                      => handling.workEmail = handling.committed[j].email

(***************************************************************************)
(* GET /hires: the ride rules are fetched, then batchMatchRules matches    *)
(* the city of each user against them.                                     *)
(***************************************************************************)
FetchRegulations ==
    /\ ~matcher.fetched
    /\ \E list \in RuleLists : matcher' = [NoMatch EXCEPT !.fetched = TRUE, !.rules = list]
    /\ UNCHANGED <<botAll, gate, fetch, req, timers, member, handling, cycles, auditReply>>

\* One call of the map callback: matchRule(user.city, allRules).
BatchMatchRules ==
    /\ matcher.fetched
    /\ \E city \in UserCities :
           matcher' = [matcher EXCEPT !.calls = 1, !.cityName = city,
                                      !.rule = MatchRule(city, matcher.rules)]
    /\ UNCHANGED <<botAll, gate, fetch, req, timers, member, handling, cycles, auditReply>>

\* The list is answered, the rules fetched are dropped.
HiresResponds ==
    /\ matcher.calls = 1
    /\ matcher' = NoMatch
    /\ UNCHANGED <<botAll, gate, fetch, req, timers, member, handling, cycles, auditReply>>

NextMatcher == FetchRegulations \/ BatchMatchRules \/ HiresResponds

SpecMatcher == Init /\ [][NextMatcher]_vars

\* The active rules of a list, and the classes of the claim for a label.
ActiveOf(list) == {list[i] : i \in {j \in DOMAIN list : list[j].status = 1}}

LabelOf(cityName) == Trim(ToLowerCase(cityName))

HasLabel(cityName) == cityName # <<>> /\ cityName # <<"Unknown">>

PriorityClass(n, cityName, list) ==
    CASE n = 1 ->
            {r \in ActiveOf(list) : /\ StartsWith(ToLowerCase(r.name), LabelOf(cityName))
                                    /\ r.sceneType = OVERTIME_SCENE}
      [] n = 2 ->
            {r \in ActiveOf(list) : /\ StringIncludes(ToLowerCase(r.name), LabelOf(cityName))
                                    /\ r.sceneType = BUSINESS_SCENE}
      [] n = 3 ->
            {r \in ActiveOf(list) : StringIncludes(ToLowerCase(r.name), LabelOf(cityName))}
      [] OTHER ->
            LET defaults == {r \in ActiveOf(list) :
                                /\ StringIncludes(r.name, <<DefaultCity>>)
                                /\ r.sceneType = OVERTIME_SCENE}
                first == CHOOSE i \in DOMAIN list :
                             /\ list[i].status = 1
                             /\ \A j \in 1..(i - 1) : list[j].status # 1
            IN  IF defaults # {} THEN defaults ELSE {list[first]}

\* C30: matchRule returns an active rule, or null exactly when the list has
\* no active rule; for a label it returns a rule of the first class that is
\* not empty among (1) active rules whose name starts with the label, of the
\* overtime scene, (2) active rules whose name contains the label, of the
\* business scene, (3) active rules whose name contains the label, (4) the
\* default rule, or the first active rule when there is no default; without
\* a label, or with "Unknown", it returns a rule of class (4).
C30_MatchRulePriority ==
    matcher.calls = 1 =>
        LET list == matcher.rules
            city == matcher.cityName
            class(n) == PriorityClass(n, city, list)
        IN  /\ (matcher.rule = NoRule) = (ActiveOf(list) = {})
            /\ matcher.rule # NoRule =>
                   /\ matcher.rule \in ActiveOf(list)
                   /\ IF ~HasLabel(city) THEN matcher.rule \in class(4)
                      ELSE \E n \in 1..4 :
                               /\ matcher.rule \in class(n)
                               /\ \A m \in 1..(n - 1) : class(m) = {}

\* The business rule of the city is returned although a rule of another
\* scene that contains the city comes first, behind a rule that is not active.
C30_Witness ==
    /\ matcher.calls = 1
    /\ matcher.cityName = <<" ", "U6B66U6C49", " ">>
    /\ Len(matcher.rules) = 3
    /\ matcher.rules[1].status = 0
    /\ matcher.rules[2].id = 5
    /\ matcher.rules[3].id = 4
    /\ matcher.rule.id = 4

\* The name of the canonical form for a label: the label, a dash, the
\* overtime rides.
CanonicalName(cityName) == LabelOf(cityName) \o <<"-", Overtime>>

\* C31: when several active overtime rules have a name that starts with the
\* label, matchRule returns the one whose name is exactly the canonical
\* label-category name if there is one, wherever it stands in the list, and
\* otherwise a rule of the shortest name among them.
C31_CanonicalElseShortest ==
    (matcher.calls = 1 /\ HasLabel(matcher.cityName)) =>
        LET starting == PriorityClass(1, matcher.cityName, matcher.rules)
            canonical == {r \in starting :
                             ToLowerCase(r.name) = CanonicalName(matcher.cityName)}
        IN  Cardinality(starting) >= 2 =>
                IF canonical # {} THEN matcher.rule \in canonical
                ELSE /\ matcher.rule \in starting
                     /\ \A r \in starting :
                            StringLength(matcher.rule.name) <= StringLength(r.name)

\* C32: no ride-service card sent by a poll cycle, forced or not, includes
\* a record flagged as intern.
C32_NoInternInRideCard ==
    \A k \in DOMAIN lastCheck.didiCards :
        \A h \in lastCheck.didiCards[k].hires : ~IsIntern(h)

\* A poll that is not forced fetched a completed roster with an intern and
\* sent a ride-service card.
C32_Witness ==
    /\ lastCheck.kind = "check"
    /\ ~lastCheck.force
    /\ \E h \in lastCheck.completedHires : IsIntern(h)
    /\ lastCheck.didiCards # <<>>

(***************************************************************************)
(* Provisioning callbacks for distinct records of one name, handled        *)
(* concurrently.  Handling h is for record h; a batch run is a sequence    *)
(* of such handlings, one after the other, and a single callback may       *)
(* arrive in the middle of it: every interleaving of the frames is         *)
(* allowed here.  The HR system answers a write atomically: an email that  *)
(* an active employee or another record holds is refused as a duplicate.   *)
(***************************************************************************)
\* The emails the callers pass for records of one name.
RacePreferred == {NoEmail, <<"zhang", "wei", "1">> \o EMAIL_DOMAIN}

\* The emails active employees hold: none, or the base email.
RaceActive == {{}, {<<"zhang", "wei">> \o EMAIL_DOMAIN}}

Claimed(h) == h.active \cup {h.committed[k].email : k \in DOMAIN h.committed}

\* checkEmailExists: the directory lists the active employees; whether it
\* lists the email of a record that is not on board yet is not decided by
\* the program, and a failed request answers false.
RaceExistsAnswers(h, email) == IF email \in Claimed(h) THEN BOOLEAN ELSE {FALSE}

\* updateWorkEmail of the atomic collaborator.
RaceUpdateOutcomes(h, email) ==
    IF email \in Claimed(h) THEN {"duplicate", "other"} ELSE {"success", "other"}

RaceDelivery ==
    /\ handling.delivered < MaxHandlings
    /\ \E preferredEmail \in RacePreferred, active \in RaceActive :
           /\ handling.delivered > 0 => active = handling.active
           /\ handling' =
                  [handling EXCEPT
                      !.delivered = @ + 1,
                      !.active = active,
                      !.frames[handling.delivered + 1] =
                          StartProvision(TwiceName, preferredEmail)]
    /\ UNCHANGED <<botAll, gate, fetch, req, timers, member, matcher, cycles, auditReply>>

RaceCheckEmailExists(h) ==
    /\ handling.frames[h].pc = "probe"
    /\ LET p == handling.frames[h]
       IN  \E exists \in RaceExistsAnswers(handling, p.candidates[p.i]) :
               handling' = [handling EXCEPT !.frames[h] = AfterProbe(p, exists)]
    /\ UNCHANGED <<botAll, gate, fetch, req, timers, member, matcher, cycles, auditReply>>

RaceUpdateWorkEmail(h) ==
    /\ handling.frames[h].pc = "commit"
    /\ LET p == handling.frames[h]
           email == p.candidates[p.i]
       IN  \E outcome \in RaceUpdateOutcomes(handling, email) :
               handling' =
                   [handling EXCEPT
                       !.frames[h] = AfterCommit(p, outcome),
                       !.committed =
                           IF outcome = "success"
                              THEN Append(@, [handling |-> h, email |-> email])
                           ELSE @]
    /\ UNCHANGED <<botAll, gate, fetch, req, timers, member, matcher, cycles, auditReply>>

NextRace ==
    \/ RaceDelivery
    \/ \E h \in Handlings : RaceCheckEmailExists(h)
    \/ \E h \in Handlings : RaceUpdateWorkEmail(h)

SpecRace == Init /\ [][NextRace]_vars

\* C33: under any interleaving of provisioning callbacks handled
\* concurrently for distinct records of one base slug, with a collaborator
\* that atomically refuses an email already claimed, no two records are
\* reported the same committed email, a reported email is the one the HR
\* system holds for the record, and none is an email of an active employee.
C33_NoSharedCommittedEmail ==
    /\ \A g, h \in Handlings :
           /\ g # h
           /\ handling.frames[g].result.status = "success"
           /\ handling.frames[h].result.status = "success"
           => handling.frames[g].result.email # handling.frames[h].result.email
    /\ \A h \in Handlings :
           handling.frames[h].result.status = "success" =>
               /\ handling.frames[h].result.email \notin handling.active
               /\ \E k \in DOMAIN handling.committed :
                      handling.committed[k] =
                          [handling |-> h, email |-> handling.frames[h].result.email]

\* Two handlings overlapped: both found the same candidate free, one
\* committed it, the other was refused it as a duplicate and committed the
\* next candidate.
C33_Witness ==
    /\ Len(handling.committed) = 2
    /\ \E g, h \in Handlings :
           /\ g # h
           /\ handling.frames[g].result.status = "success"
           /\ handling.frames[h].result.status = "success"
           /\ handling.frames[g].startIndex = handling.frames[h].startIndex
           /\ handling.frames[g].candidates = handling.frames[h].candidates
           /\ \E k \in DOMAIN handling.frames[h].commits :
                  handling.frames[h].commits[k] =
                      [email |-> handling.frames[g].result.email, outcome |-> "duplicate"]

(***************************************************************************)
(* Two poll cycles that overlap at their roster fetch.                     *)
(***************************************************************************)
\* The HR system: a record joins or leaves the roster.
RosterChanges ==
    /\ cycles.version < MaxChanges
    /\ \E roster \in SUBSET Hires :
           /\ roster # cycles.roster
           /\ cycles' = [cycles EXCEPT !.roster = roster, !.version = @ + 1]
    /\ UNCHANGED <<botAll, gate, fetch, req, timers, member, handling, matcher, auditReply>>

\* checkAndNotify up to its await.
CycleStarts(c) ==
    /\ cycles.frames[c].pc = "idle"
    /\ cycles' = [cycles EXCEPT
                     !.frames[c].pc = "fetching",
                     !.overlapped = @ \/ \E d \in CycleKinds \ {c} :
                                            cycles.frames[d].pc \in {"fetching", "fetched"}]
    /\ UNCHANGED <<botAll, gate, fetch, req, timers, member, handling, matcher, auditReply>>

\* The HR system answers the fetch of a cycle with the roster it holds.
RosterFetched(c) ==
    /\ cycles.frames[c].pc = "fetching"
    /\ cycles' = [cycles EXCEPT
                     !.frames[c] = [pc |-> "fetched", preHires |-> cycles.roster,
                                    version |-> cycles.version],
                     !.latest = [version |-> cycles.version, ids |-> cycles.roster]]
    /\ UNCHANGED <<botAll, gate, fetch, req, timers, member, handling, matcher, auditReply>>

\* The answer reaches the bot: checkAndNotify after its await, with the ride
\* service not configured.  The timer poll is not forced, the manual check is.
CycleResumes(c) ==
    /\ cycles.frames[c].pc = "fetched"
    /\ LET force == (c = "manual")
           preHires == cycles.frames[c].preHires
           email == IF preHires # {} THEN ProcessPreboardingHires(preHires, force, NoCity)
                    ELSE NoCategory(lastKnownIds, initialized)
       IN  /\ lastKnownIds' = email.known
           /\ initialized' = email.initialized
           /\ lastCheck' = [kind |-> "check", force |-> force, preHires |-> preHires,
                            completedHires |-> {}, newHires |-> email.new,
                            newCompleted |-> {}, emailCards |-> email.cards,
                            didiCards |-> <<>>, threw |-> email.threw,
                            seq |-> 1 - lastCheck.seq]
    /\ cycles' = [cycles EXCEPT !.frames[c].pc = "done"]
    /\ UNCHANGED <<now, didiConfigured, lastKnownCompletedIds, completedInitialized,
                   pushQuery, emailVars, callbackVars, urgency,
                   gate, fetch, req, timers, member, handling, matcher, auditReply>>

NextOverlap ==
    \/ RosterChanges
    \/ \E c \in CycleKinds : CycleStarts(c)
    \/ \E c \in CycleKinds : RosterFetched(c)
    \/ \E c \in CycleKinds : CycleResumes(c)
    \/ AdvanceDay

SpecOverlap == InitRefresh /\ [][NextOverlap]_vars

\* C34: when a timer poll and a manual check overlap at their roster fetch,
\* after both have finished the KnownSet is the id set of the roster
\* snapshot that was fetched last.
C34_KnownSetIsLatestSnapshot ==
    (cycles.overlapped /\ \A c \in CycleKinds : cycles.frames[c].pc = "done")
        => lastKnownIds = cycles.latest.ids

\* The records a cycle delivered an email card for.
DeliveredBy(check) == UNION {check.emailCards[k].hires : k \in DOMAIN check.emailCards}

\* C35: when the send of a group's card fails during a poll that is not
\* forced, every new record of that poll whose card was not delivered is
\* classified as new again by the next poll that finds it on the roster.
C35_UndeliveredIsNewAgain ==
    [][(/\ lastCheck'.seq # lastCheck.seq
        /\ lastCheck.kind = "check"
        /\ ~lastCheck.force
        /\ lastCheck.threw)
       => \A h \in lastCheck.newHires \ DeliveredBy(lastCheck) :
              h \in lastCheck'.preHires => h \in lastCheck'.newHires]_vars

\* C36: a record that a poll classified as new in a scheduled group on a
\* weekday outside the rule's day list, and that stays on the roster, is
\* included in the email card of a later poll, at the latest of a poll
\* that is not forced and runs on a listed weekday: here the very next poll.
C36_ScheduledRecordIsNotifiedOnListedDay ==
    [][(/\ lastCheck'.seq # lastCheck.seq
        /\ lastCheck.kind = "check"
        /\ ~lastCheck.force
        /\ ~lastCheck'.force)
       => \A h \in lastCheck.newHires \ DeliveredBy(lastCheck) :
              (/\ PushRuleOf(CityOf(h)).type = "scheduled"
               /\ ChinaDay(now) \in PushRuleOf(CityOf(h)).days
               /\ h \in lastCheck'.preHires)
                  => h \in DeliveredBy(lastCheck')]_vars

(***************************************************************************)
(* Reading the audit log while callbacks append to it.  The answer is kept *)
(* by its length and the timestamps of its first and last entry.           *)
(***************************************************************************)
GetBotAudit ==
    /\ \E count \in AuditCounts :
           LET logs == GetAuditLog(auditLog, count)
           IN  auditReply' =
                   [seq |-> 1 - auditReply.seq, count |-> count, total |-> Len(logs),
                    first |-> IF logs = <<>> THEN 0 ELSE logs[1].timestamp,
                    last |-> IF logs = <<>> THEN 0 ELSE logs[Len(logs)].timestamp]
    /\ UNCHANGED <<botAll, gate, fetch, req, timers, member, handling, matcher, cycles>>

NextAuditRead == HandleProvisionEmailHourly \/ GetBotAudit

SpecAuditRead == InitAudit /\ [][NextAuditRead]_vars

\* C37: getAuditLog(count) returns at most count entries, the count most
\* recently appended entries of the log in append order (all of them when
\* the log holds fewer), for every count >= 0, count = 0 included.
C37_AuditReadReturnsLastCount ==
    [][auditReply'.seq # auditReply.seq =>
          LET n == Len(auditLog)
              kept == IF auditReply'.count < n THEN auditReply'.count ELSE n
          IN  /\ auditReply'.total <= auditReply'.count
              /\ auditReply'.total = kept
              /\ kept > 0 => /\ auditReply'.first = auditLog[n - kept + 1].timestamp
                             /\ auditReply'.last = auditLog[n].timestamp]_vars

\* The timers of the event loop that are active, by what they start.
PollTimers == {t \in timers.pending : t.kind = "interval"}

DigestTimers == {t \in timers.pending : t.kind \in {"dailyFirst", "daily"}}

\* C38: for any sequence of start, stop and chat-id reconfiguration calls,
\* at most one periodic poll timer and at most one daily-digest timer are
\* active at any time.
C38_AtMostOneTimerOfEachKind ==
    /\ Cardinality(PollTimers) <= 1
    /\ Cardinality(DigestTimers) <= 1

\* The ids of the pages that settled with a given outcome.
IdsOfPages(outcome) ==
    UNION {{fetch.batches[p.page][k] : k \in DOMAIN fetch.batches[p.page]} :
              p \in {q \in fetch.settled : q.outcome = outcome}}

\* C39: when a page request fails after its retries or returns a non-zero
\* code, getEnrichedPreHires still reaches its return, and the records it
\* returns are built from exactly the ids of the pages that succeeded: no
\* record of a failed page is among them.
C39_FailedPageIsLeftOut ==
    fetch.pc = "done" =>
        /\ {p.page : p \in fetch.settled} = DOMAIN fetch.batches
        /\ fetch.enriched = IdsOfPages("items")
        /\ fetch.enriched \cap (IdsOfPages("code") \cup IdsOfPages("rejected")) = {}

\* A fetch of four pages has reached its return: one page was rejected, one
\* answered a non-zero code, and the ids of the other two are returned.
C39_Witness ==
    /\ fetch.pc = "done"
    /\ Len(fetch.batches) = 4
    /\ IdsOfPages("rejected") # {}
    /\ IdsOfPages("code") # {}
    /\ Cardinality(fetch.enriched) = Len(fetch.ids) - Cardinality(IdsOfPages("rejected"))
                                         - Cardinality(IdsOfPages("code"))
    /\ Cardinality(fetch.enriched) > BATCH_SIZE

\* The suffix emails of a base, in the order of the suffix sequence.
SuffixEmails(basePinyin) ==
    [k \in DOMAIN VALID_SUFFIXES |-> SuffixEmail(basePinyin, k)]

\* C40: the candidate list of an allocation has no duplicate entry and
\* holds the base email and every base+suffix email; with a preferred email
\* other than the base, the preferred email is first, the base second, and
\* the suffix emails follow in the order of the sequence, the preferred one
\* not repeated; otherwise the base is first and the suffix emails follow.
\* The list is looked at when it has just been built: it never changes later.
C40_CandidateList ==
    (prov.pc = "probe" /\ prov.probes = <<>>) =>
        LET c == prov.candidates
            basePinyin == generatePinyin(prov.name)
            baseEmail == basePinyin \o EMAIL_DOMAIN
            suffixed == SuffixEmails(basePinyin)
            preferred == prov.preferredEmail
        IN  /\ \A i, j \in DOMAIN c : i # j => c[i] # c[j]
            /\ Includes(c, baseEmail)
            /\ \A k \in DOMAIN suffixed : Includes(c, suffixed[k])
            /\ IF preferred # NoEmail /\ preferred # baseEmail
                  THEN /\ c[1] = preferred
                       /\ c[2] = baseEmail
                       /\ SubSeq(c, 3, Len(c))
                              = SelectSeq(suffixed, LAMBDA e : e # preferred)
               ELSE /\ c[1] = baseEmail
                    /\ SubSeq(c, 2, Len(c)) = suffixed

\* An allocation whose preferred email is the base with the second suffix:
\* it is tried first and stands nowhere else in the list.
C40_Witness ==
    /\ prov.pc = "probe"
    /\ prov.probes = <<>>
    /\ prov.preferredEmail = SuffixEmail(generatePinyin(prov.name), 2)
    /\ prov.candidates[1] = prov.preferredEmail
    /\ Len(prov.candidates) = Len(VALID_SUFFIXES) + 1
    /\ prov.candidates[3] = SuffixEmail(generatePinyin(prov.name), 1)
    /\ prov.candidates[4] = SuffixEmail(generatePinyin(prov.name), 3)

====
